---- MODULE Spec2Model ----
(***************************************************************************)
(* crowd-code 2.0: the recording orchestrator (src/src/recording.ts, the   *)
(* module that starts at line 815), the observation capture it calls       *)
(* (src/src/capture/viewportCapture.ts), the git operation detector        *)
(* (src/unnamed/part_007) and the reporting tail of the filesystem watcher *)
(* whose callback has handleFileChange's signature (src/unnamed/part_003). *)
(*                                                                         *)
(* Every handler is one action: the host's event loop runs one callback at *)
(* a time.  Date.now() is the variable now, a clock that never runs        *)
(* backwards.  Nullable values are encoded in their own type: Null for a   *)
(* time, NoFile for a file name, NullContent for a text.                   *)
(***************************************************************************)
EXTENDS Integers, Sequences, FiniteSets, TLC

VARIABLES
    now,                      \* Date.now(), in ms
    recording,                \* recording.ts:863 the RecordingState object
    previousFile,             \* recording.ts:884
    panicButtonPressCount,    \* recording.ts:886
    panicButtonTimeoutId,     \* recording.ts:887 the time the timeout is due, or Null
    lastUserInteractionTime,  \* recording.ts:894
    lastUserEditedFile,       \* recording.ts:895
    lastObservationHash,      \* viewportCapture.ts:13
    viewportChanged,          \* viewportCapture.ts:14
    sawHeadChange,            \* part_007:9
    lastGitOperationTime,     \* part_007:10
    activeEditor,             \* host: vscode.window.activeTextEditor's document
    lastHeadChangeTime,       \* history: when .git/HEAD last changed
    editsSinceReport,         \* history: per file, the user's edits since the last change report
    lastOp,                   \* history: the last callback run and its inputs
    listeners,                \* which timers, subscriptions and watchers are active
    lastPress,                \* history: the last panic press of the session
    inFlight,                 \* the axios posts and file writes that have not settled
    consent,                  \* consent.ts:11 globalState dataCollectionConsent
    editorView,               \* host: the active editor's visible ranges and cursor
    capturedViewport,         \* the last result of captureViewportState
    csv,                      \* the CSV recorder (recording.ts:1-814): its state and file
    terminals,                \* host: vscode.window.terminals, their names, the active one
    tracker,                  \* terminalCapture.ts:11-44 the module's state
    disk,                     \* host: the text of each workspace file
    watcher,                  \* filesystemWatcher.ts:23-33 the module's state
    starting                  \* the startRecording calls waiting at an await, and the
                              \* subscription sets and timers that they have created

vars == <<now, recording, previousFile, panicButtonPressCount, panicButtonTimeoutId,
          lastUserInteractionTime, lastUserEditedFile, lastObservationHash,
          viewportChanged, sawHeadChange, lastGitOperationTime, activeEditor,
          lastHeadChangeTime, editsSinceReport, lastOp>>

\* ------------------------------------------------------------------ bounds
MaxEvents == 2
StartClock == 2500
MaxPending == 1
MaxPresses == 3
MaxEventsFiles == 4
MaxTimeFiles == 4500
MaxTimePanic == 15500
MaxSaves == 1
MaxPosts == 2
MaxLine == 2
MaxTimeWindow == 9500
MaxCsvSequence == 3
MaxCalls == 3
MaxCallsIds == 1
MaxCallsPoll == 4
MaxCallsStale == 2
MaxStarts == 2
MaxEventsStart == 4
MaxEventsStale == 3
MaxNotificationsStale == 1
MaxAppends == 8
MaxNotifications == 3
MaxNotificationsExcluded == 2
MaxNotificationsWarmup == 1
MaxEventsGit == 5
MaxTimeGit == 3600

\* ------------------------------------------------------- program constants
PANIC_BUTTON_TIMEOUT == 3000
USER_INTERACTION_WINDOW_MS == 2000
GIT_OPERATION_WINDOW_MS == 500
PANIC_SECONDS_PER_PRESS == 10
TERMINAL_VIEWPORT_LINES == 20

\* ------------------------------------------------------------------ inputs
Null == -1
NoFile == "null"
NullContent == <<"null">>
NullDiff == [from |-> NullContent, to |-> NullContent]
NullHash == [viewport |-> -1]

Files == {"a.txt", "b.txt"}
ExportedFile == "crowd-code/recording.json"
NoEditor == "none"
Editors == Files \cup {ExportedFile, NoEditor}
Terminals == {"terminal-1"}
ChangeTypes == {"create", "change", "delete"}

\* texts are sequences of characters
Contents == {<< >>, <<"a", "b">>, <<"X", "a", "b">>, <<"X", "a", "b", "c">>}

InsertX == [rangeOffset |-> 0, rangeLength |-> 0, text |-> <<"X">>]
DeleteFirst == [rangeOffset |-> 0, rangeLength |-> 1, text |-> << >>]
ContentChangeLists == {<<InsertX>>}

\* an Observation (types.ts:30): the editor viewport and the terminal viewports
Viewports == 0..1
TerminalTexts == 0..0
Observations == [viewport : Viewports, activeTerminals : TerminalTexts]

\* what the watcher finds for a notification: the cached text and the text read
\* (NullContent: not cached / unreadable or deleted)
ReportInputs ==
    { [changeType |-> "change", oldContent |-> <<"a", "b">>, newContent |-> <<"X", "a", "b">>],
      [changeType |-> "change", oldContent |-> <<"a", "b">>, newContent |-> <<"X", "a", "b", "c">>],
      [changeType |-> "change", oldContent |-> <<"a", "b">>, newContent |-> <<"a", "b">>],
      [changeType |-> "change", oldContent |-> <<"a", "b">>, newContent |-> NullContent],
      [changeType |-> "change", oldContent |-> << >>, newContent |-> <<"a", "b">>],
      [changeType |-> "create", oldContent |-> NullContent, newContent |-> << >>],
      [changeType |-> "create", oldContent |-> NullContent, newContent |-> <<"a", "b">>],
      [changeType |-> "delete", oldContent |-> <<"a", "b">>, newContent |-> NullContent] }

\* the reports the engine-wide specification feeds in
BasicReports == {in \in ReportInputs :
                    in.oldContent = <<"a", "b">>
                    /\ in.newContent \in {<<"X", "a", "b">>, NullContent}}

StepsFiles == {500, 2000}
StepsPanic == {3000, 10000}
StepsWindow == {1000, 3000}
StepsGit == {500, 501}
Shown0 == [viewport |-> 0, activeTerminals |-> 0]

NoOp == [op |-> "none"]

\* ------------------------------------------------- viewportCapture.ts
\* md5 of JSON {viewport, terminalIds}: the terminals' text is not hashed
computeObservationHash(observation) ==
    [viewport |-> observation.viewport]

captureObservation(shown) ==
    [viewport |-> shown.viewport, activeTerminals |-> shown.activeTerminals]

\* variant: every observation is returned, equal to the last one or not
captureNow_NoDeduplication(shown, lastHash) ==
    LET observation == captureObservation(shown)
        hash == computeObservationHash(observation)
    IN  [observation |-> observation,
         isNull |-> FALSE,
         lastObservationHash |-> hash]

\* the observation, and whether captureNow returns it (it returns null for a
\* hash equal to lastObservationHash)
captureNow(shown, lastHash) ==
    LET observation == captureObservation(shown)
        hash == computeObservationHash(observation)
    IN  [observation |-> observation,
         isNull |-> (hash = lastHash),
         lastObservationHash |-> hash]

\* --------------------------------------------------------- part_007 (git)
\* variant: a signal exactly GIT_OPERATION_WINDOW_MS old is too old
getRecentGitOperation_StrictWindow(t, lastTime, sawHead) ==
    IF t - lastTime >= GIT_OPERATION_WINDOW_MS
    THEN [result |-> "null", sawHeadChange |-> sawHead]
    ELSE [result |-> IF sawHead THEN "git_checkout" ELSE "git",
          sawHeadChange |-> FALSE]

getRecentGitOperation(t, lastTime, sawHead) ==
    IF t - lastTime > GIT_OPERATION_WINDOW_MS
    THEN [result |-> "null", sawHeadChange |-> sawHead]
    ELSE [result |-> IF sawHead THEN "git_checkout" ELSE "git",
          sawHeadChange |-> FALSE]

\* ------------------------------------------------------ part_003 (watcher)
\* the unified diff of two texts, kept as the pair of texts it was computed from
computeDiff(oldContent, newContent) ==
    IF oldContent = NullContent /\ newContent = NullContent THEN NullDiff
    ELSE IF oldContent = newContent THEN NullDiff
    ELSE [from |-> IF oldContent = NullContent THEN << >> ELSE oldContent,
          to |-> IF newContent = NullContent THEN << >> ELSE newContent]

\* ------------------------------------------------------------ recording.ts
logObservation(r, t, observation) ==
    IF ~r.isRecording THEN r
    ELSE [r EXCEPT !.sequence = r.sequence + 1,
                   !.events = Append(r.events,
                       [sequence |-> r.sequence + 1, timestamp |-> t,
                        type |-> "observation", observation |-> observation])]

logAction(r, t, action) ==
    IF ~r.isRecording THEN r
    ELSE [r EXCEPT !.sequence = r.sequence + 1,
                   !.events = Append(r.events,
                       [sequence |-> r.sequence + 1, timestamp |-> t,
                        type |-> "action", action |-> action])]

\* st = [rec, hash]: the recording object and lastObservationHash
\* variant: the action is logged first and the captured observation after it
logObservationAndAction_ActionFirst(st, t, action, shown) ==
    LET c == captureNow(shown, st.hash)
        r1 == logAction(st.rec, t, action)
    IN  [rec |-> IF c.isNull THEN r1 ELSE logObservation(r1, t, c.observation),
         hash |-> c.lastObservationHash]

logObservationAndAction(st, t, action, shown) ==
    LET c == captureNow(shown, st.hash)
        r1 == IF c.isNull THEN st.rec ELSE logObservation(st.rec, t, c.observation)
    IN  [rec |-> logAction(r1, t, action), hash |-> c.lastObservationHash]

isCurrentFileExported(editor) == editor = ExportedFile

EditAction(file, change) ==
    [kind |-> "edit", source |-> "user", file |-> file, diff |-> change]

\* the loop over event.contentChanges of handleTextDocumentChange
RECURSIVE LogContentChanges(_, _, _, _, _)
LogContentChanges(st, t, file, changes, shown) ==
    IF changes = << >> THEN st
    ELSE LogContentChanges(
             logObservationAndAction(st, t, EditAction(file, Head(changes)), shown),
             t, file, Tail(changes), shown)

\* ------------------------------------------------------------------ state
engineVars == <<recording, previousFile, lastUserInteractionTime, lastUserEditedFile,
                lastObservationHash>>
panicVars == <<panicButtonPressCount, panicButtonTimeoutId>>
gitVars == <<sawHeadChange, lastGitOperationTime, lastHeadChangeTime>>
hostVars == <<listeners, lastPress>>
\* the variables no callback of the recording engine writes
viewVars == <<editorView, capturedViewport>>
termVars == <<terminals, tracker>>
watchVars == <<disk, watcher>>
outerVars == <<consent, viewVars, csv, termVars, watchVars, starting>>
allVars == <<vars, hostVars, inFlight, outerVars>>

\* no timer, subscription or watcher exists before the first session
NoListeners ==
    [subscriptions |-> FALSE,            \* recording.ts:1187 the three editor subscriptions
     intervalId |-> FALSE,               \* recording.ts:1199 the 1 s timer
     uploadIntervalId |-> FALSE,         \* recording.ts:1208 the upload timer
     pollInterval |-> FALSE,             \* viewportCapture.ts:137 the viewport poll
     visibleRangesDisposable |-> FALSE,  \* viewportCapture.ts:131
     terminalPollInterval |-> FALSE,     \* terminalCapture.ts:220
     terminalDisposables |-> FALSE,      \* terminalCapture.ts:170-210
     fileWatcher |-> FALSE]              \* part_003:241
\* what startRecording creates
SessionListeners == [l \in DOMAIN NoListeners |-> TRUE]
NoPress == [time |-> Null, window |-> 0, previous |-> 0]

InitEngine ==
    /\ now = StartClock
    /\ recording = [isRecording |-> FALSE, startDateTime |-> Null, endDateTime |-> Null,
                    sequence |-> 0, events |-> << >>]
    /\ previousFile = NoFile
    /\ panicButtonPressCount = 0
    /\ panicButtonTimeoutId = Null
    /\ lastUserInteractionTime = 0
    /\ lastUserEditedFile = NoFile
    /\ lastObservationHash = NullHash
    /\ viewportChanged = FALSE
    /\ sawHeadChange = FALSE
    /\ lastGitOperationTime = 0
    /\ activeEditor = NoEditor
    /\ lastHeadChangeTime = 0
    /\ editsSinceReport = [f \in Files |-> << >>]
    /\ lastOp = NoOp

InitHost ==
    /\ listeners = NoListeners
    /\ lastPress = NoPress

\* consent.ts:11 the stored status defaults to pending
ConsentStatuses == {"pending", "accepted", "declined"}
InitPersist ==
    /\ inFlight = [posts |-> 0, saves |-> 0]
    /\ consent = "pending"

\* ------------------------------------------- viewportCapture.ts:35-76
\* lines are counted from 0 by the host (vscode.Position.line)
Lines == 0..MaxLine
LineRanges == {r \in [start : Lines, end : Lines] : r.start <= r.end}
\* editor.visibleRanges: none, one, or two ranges around a folded region
VisibleRangeLists ==
    {<< >>} \cup {<<r>> : r \in LineRanges}
            \cup {<<p[1], p[2]>> : p \in {q \in LineRanges \X LineRanges :
                                                q[2].start > q[1].end}}
\* the document's text: line i reads i
DocumentLines == [i \in 1..(MaxLine + 1) |-> i - 1]
NoEditorView == [hasEditor |-> FALSE, file |-> NoFile, visibleRanges |-> << >>,
                 hasSelection |-> FALSE, activeLine |-> 0]
EditorViews ==
    {NoEditorView} \cup
    [hasEditor : {TRUE}, file : {"a.txt"}, visibleRanges : VisibleRangeLists,
     hasSelection : BOOLEAN, activeLine : Lines]
NullViewport == [isNull |-> TRUE]
NullCursor == -1

captureViewportState(editor) ==
    IF ~editor.hasEditor THEN NullViewport
    ELSE IF Len(editor.visibleRanges) = 0 THEN NullViewport
    ELSE LET firstRange == editor.visibleRanges[1]
             lastRange == editor.visibleRanges[Len(editor.visibleRanges)]
             startLine == firstRange.start
             endLine == lastRange.end
         IN  [isNull |-> FALSE,
              file |-> editor.file,
              startLine |-> startLine + 1,
              endLine |-> endLine + 1,
              content |-> SubSeq(DocumentLines, startLine + 1, endLine + 1),
              cursorPosition |-> IF editor.hasSelection THEN editor.activeLine
                                 ELSE NullCursor]

InitView ==
    /\ editorView = NoEditorView
    /\ capturedViewport = NullViewport

\* ------------------------------------- the CSV recorder, recording.ts:1-814
\* recording.ts:32-44 recording, fileQueue, isAppending; file is the session's
\* CSV file, writes the appendFile calls that have not settled; withEditor and
\* writeFailed are history: the session started with an editor open, an
\* appendFile was rejected
InitCsv ==
    csv = [isRecording |-> FALSE, startDateTime |-> Null, sequence |-> 0,
           fileQueue |-> << >>, isAppending |-> FALSE, writes |-> {},
           file |-> << >>, withEditor |-> FALSE, writeFailed |-> FALSE]

HeadingRow == [sequence |-> 0, type |-> "heading", rangeOffset |-> 0,
               rangeLength |-> 0, text |-> << >>]
\* recording.ts:67-88 buildCsvRow; the time column is left out
buildCsvRow(sequence, rangeOffset, rangeLength, text, type) ==
    IF type = "heading" THEN HeadingRow
    ELSE [sequence |-> sequence, type |-> type, rangeOffset |-> rangeOffset,
          rangeLength |-> rangeLength, text |-> text]

\* recording.ts:611-631
addToFileQueue(c, content) ==
    IF c.startDateTime = Null THEN c
    ELSE [c EXCEPT !.fileQueue = Append(@, content)]

\* recording.ts:286-315 the CSV recorder's stopRecording(true)
csvStopForced(c) ==
    IF ~c.isRecording THEN c ELSE [c EXCEPT !.isRecording = FALSE]

\* variant: a second append loop starts while one is running
appendToFile_NoReentryGuard(c, hasExportPath) ==
    IF ~hasExportPath
    THEN [csvStopForced(c) EXCEPT !.isAppending = FALSE]
    ELSE IF Len(c.fileQueue) > 0
    THEN [c EXCEPT !.isAppending = TRUE,
                   !.writes = @ \cup {Head(c.fileQueue)},
                   !.fileQueue = Tail(@)]
    ELSE [c EXCEPT !.isAppending = FALSE]

\* recording.ts:331-367 appendToFile up to its first await
appendToFile(c, hasExportPath) ==
    IF c.isAppending THEN c
    ELSE IF ~hasExportPath
    THEN [csvStopForced(c) EXCEPT !.isAppending = FALSE]
    ELSE IF Len(c.fileQueue) > 0
    THEN [c EXCEPT !.isAppending = TRUE,
                   !.writes = @ \cup {Head(c.fileQueue)},
                   !.fileQueue = Tail(@)]
    ELSE [c EXCEPT !.isAppending = FALSE]

RECURSIVE QueueContentChanges(_, _, _)
\* recording.ts:118-129 the loop over event.contentChanges
QueueContentChanges(c, changes, hasExportPath) ==
    IF changes = << >> THEN c
    ELSE LET change == Head(changes)
             c1 == [c EXCEPT !.sequence = @ + 1]
             c2 == addToFileQueue(c1, buildCsvRow(c1.sequence, change.rangeOffset,
                                                  change.rangeLength, change.text,
                                                  "content"))
         IN  QueueContentChanges(appendToFile(c2, hasExportPath), Tail(changes),
                                 hasExportPath)

\* --------------------------------------------------- terminalCapture.ts
TerminalObjects == {"T1", "T2"}
TerminalNames == {"bash", "zsh"}
NoTerminal == "none"
NoTerminalId == 0

\* a string is kept as what split('\n') makes of it: one or more lines, each a
\* sequence of pieces without a line break
EmptyString == << << >> >>
CommandLine == << <<"$ ls">>, << >> >>                    \* "$ ls\n"
ChunkLines == << <<"a">>, <<"b">>, <<"c">>, << >> >>      \* "a\nb\nc\n"
ChunkPartial == << <<"p">> >>                             \* "p"
Chunks == {ChunkLines, ChunkPartial}

\* existing + content
Concat(a, b) ==
    SubSeq(a, 1, Len(a) - 1) \o <<a[Len(a)] \o b[1]>> \o Tail(b)

\* lines.slice(-n)
SliceLast(lines, n) ==
    IF Len(lines) > n THEN SubSeq(lines, Len(lines) - n + 1, Len(lines)) ELSE lines

\* Map.set(key, value) and Map.delete(key)
MapSet(map, key, value) ==
    [k \in DOMAIN map \cup {key} |-> IF k = key THEN value ELSE map[k]]
MapDelete(map, key) == [k \in DOMAIN map \ {key} |-> map[k]]
EmptyMap == [k \in {} |-> 0]

\* terminalCapture.ts:11-44; drains are the shell executions whose output is
\* still being read, calls the callbacks made so far and appended everything
\* appended to a terminal's buffer since it was created or reset
NoTerminals == [open |-> {}, closed |-> {},
                name |-> [t \in TerminalObjects |-> "bash"],
                active |-> NoTerminal]
NoTracker == [terminalContent |-> EmptyMap, terminalNames |-> EmptyMap,
              terminalIdCounter |-> 0,
              terminalIdMap |-> [t \in TerminalObjects |-> NoTerminalId],
              activeTerminalId |-> NoTerminalId,
              outputChanging |-> FALSE, terminalViewportChanged |-> FALSE,
              disposables |-> FALSE, pollInterval |-> FALSE,
              callbacks |-> FALSE, onViewportObservationCallback |-> FALSE,
              drains |-> {}, calls |-> << >>, appended |-> EmptyMap]
InitTerminals == terminals = NoTerminals /\ tracker = NoTracker

\* terminalCapture.ts:49-58
getTerminalId(tr, terminal, name) ==
    IF tr.terminalIdMap[terminal] # NoTerminalId
    THEN [tr |-> tr, id |-> tr.terminalIdMap[terminal]]
    ELSE LET id == tr.terminalIdCounter + 1
         IN  [tr |-> [tr EXCEPT
                        !.terminalIdCounter = id,
                        !.terminalIdMap[terminal] = id,
                        !.terminalNames = MapSet(@, id, name),
                        !.terminalContent = MapSet(@, id, EmptyString),
                        !.appended = MapSet(@, id, EmptyString)],
              id |-> id]

\* terminalCapture.ts:63-70
extractViewport(tr, terminalId) ==
    IF terminalId \notin DOMAIN tr.terminalContent
          \/ tr.terminalContent[terminalId] = EmptyString
    THEN << >>
    ELSE SliceLast(tr.terminalContent[terminalId], TERMINAL_VIEWPORT_LINES)

\* variant: the buffer keeps every line
appendTerminalContent_NoTruncation(tr, terminalId, content) ==
    LET existing == IF terminalId \in DOMAIN tr.terminalContent
                    THEN tr.terminalContent[terminalId] ELSE EmptyString
        combined == Concat(existing, content)
        history == IF terminalId \in DOMAIN tr.appended
                   THEN tr.appended[terminalId] ELSE EmptyString
    IN  [tr EXCEPT
            !.terminalContent = MapSet(@, terminalId, combined),
            !.appended = MapSet(@, terminalId, Concat(history, content)),
            !.terminalViewportChanged = TRUE]

\* terminalCapture.ts:96-108
appendTerminalContent(tr, terminalId, content) ==
    LET existing == IF terminalId \in DOMAIN tr.terminalContent
                    THEN tr.terminalContent[terminalId] ELSE EmptyString
        combined == Concat(existing, content)
        history == IF terminalId \in DOMAIN tr.appended
                   THEN tr.appended[terminalId] ELSE EmptyString
    IN  [tr EXCEPT
            !.terminalContent =
                MapSet(@, terminalId,
                       IF Len(combined) > TERMINAL_VIEWPORT_LINES
                       THEN SliceLast(combined, TERMINAL_VIEWPORT_LINES)
                       ELSE combined),
            !.appended = MapSet(@, terminalId, Concat(history, content)),
            !.terminalViewportChanged = TRUE]

\* terminalCapture.ts:255-260
resetTerminalState(tr) ==
    [tr EXCEPT !.terminalContent = [k \in DOMAIN @ |-> EmptyString],
               !.appended = [k \in DOMAIN tr.terminalContent |-> EmptyString],
               !.terminalViewportChanged = FALSE]

RECURSIVE SeeTerminals(_, _, _)
\* terminalCapture.ts:212-214 the loop over vscode.window.terminals
SeeTerminals(tr, open, names) ==
    IF open = {} THEN tr
    ELSE LET t == CHOOSE x \in open : TRUE
         IN  SeeTerminals(getTerminalId(tr, t, names[t]).tr, open \ {t}, names)

\* recording.ts:1178-1182 the call of initializeTerminalCapture passes the three
\* callbacks and no onViewportObservation
OnViewportObservationPassed == FALSE

\* terminalCapture.ts:76-90; no viewport without a focused terminal or its name
NoTerminalViewport == [id |-> NoTerminalId, name |-> NoTerminal, viewport |-> << >>]
getActiveTerminalViewport(tr) ==
    IF tr.activeTerminalId = NoTerminalId
          \/ tr.activeTerminalId \notin DOMAIN tr.terminalNames
    THEN NoTerminalViewport
    ELSE [id |-> tr.activeTerminalId,
          name |-> tr.terminalNames[tr.activeTerminalId],
          viewport |-> extractViewport(tr, tr.activeTerminalId)]

\* terminalCapture.ts:124-128 and 160-164: the viewport of the focused terminal
\* is handed to onViewportObservationCallback, if there is one
ObserveTerminalViewport(tr) ==
    LET viewport == getActiveTerminalViewport(tr)
    IN  IF ~tr.onViewportObservationCallback \/ viewport = NoTerminalViewport
        THEN tr
        ELSE [tr EXCEPT
                !.calls = Append(@, [callback |-> "onViewportObservation",
                                     id |-> viewport.id, name |-> viewport.name,
                                     drain |-> 0, data |-> EmptyString,
                                     focused |-> TRUE,
                                     viewport |-> viewport.viewport])]

\* terminalCapture.ts:134-221
initializeTerminalCapture(tr, host) ==
    LET tr0 == [tr EXCEPT !.callbacks = TRUE,
                          !.onViewportObservationCallback =
                              OnViewportObservationPassed]
    IN  IF tr.disposables THEN tr0
        ELSE LET tr1 == SeeTerminals([tr0 EXCEPT !.disposables = TRUE],
                                     host.open, host.name)
                 tr2 == IF host.active # NoTerminal
                        THEN LET g == getTerminalId(tr1, host.active,
                                                    host.name[host.active])
                             IN  [g.tr EXCEPT !.activeTerminalId = g.id]
                        ELSE tr1
             IN  [tr2 EXCEPT !.pollInterval = TRUE]

\* ------------------------------------------------- filesystemWatcher.ts
Paths == {"a.txt"}
ExcludedPath == ".git/index"
IgnoredPath == "out.log"      \* matched by a rule of the workspace's .gitignore
ExcludedPaths == {ExcludedPath, IgnoredPath}
AllPaths == Paths \cup ExcludedPaths
ExcludedTexts == {<<"a", "b">>}
BigText == <<"big">>          \* a text longer than MAX_FILE_SIZE_BYTES
FileTexts == {<<"a", "b">>, <<"X", "a", "b">>, BigText}
NoDisk == [p \in AllPaths |-> NullContent]
NoMatcher == {"null"}

\* filesystemWatcher.ts:23-33; tasks are the calls of processFileChange and the
\* turns of initializeCacheBackground that wait for the file system, reports the
\* calls of fileChangeCallback, deleted the paths whose delete was processed with
\* no create/change notification since, notified the number of notifications
NoWatcher == [fileCache |-> EmptyMap, fileWatcher |-> FALSE,
              gitignoreMatcher |-> NoMatcher, tasks |-> {}, lastRead |-> EmptyMap,
              reports |-> << >>, deleted |-> {}, notified |-> 0]
InitWatcher == disk = NoDisk /\ watcher = NoWatcher

\* variant: no path is excluded
isExcluded_NothingExcluded(w, filePath) == FALSE

\* filesystemWatcher.ts:38-45
isExcluded(w, filePath) ==
    IF w.gitignoreMatcher = NoMatcher THEN FALSE
    ELSE filePath \in w.gitignoreMatcher

\* filesystemWatcher.ts:50-71; the matcher is kept as the set of paths that it
\* ignores: those under .git and those that the rules of .gitignore match
loadGitignore(w) == [w EXCEPT !.gitignoreMatcher = ExcludedPaths]

\* fileCache.get(filePath) ?? null
CacheGet(w, filePath) ==
    IF filePath \in DOMAIN w.fileCache THEN w.fileCache[filePath] ELSE NullContent

\* filesystemWatcher.ts:91-98
isFileSizeWithinLimit(text) == text # NullContent /\ text # BigText

\* filesystemWatcher.ts:245-247, called when a session starts (recording.ts:1166);
\* lastRead is history: per path, the text that the latest read of the session
\* returned
resetFilesystemState(w) == [w EXCEPT !.fileCache = EmptyMap, !.lastRead = EmptyMap]

\* filesystemWatcher.ts:202-230 with the start of initializeCacheBackground
\* (176-183): one turn per file that findFiles lists
initializeFilesystemWatcher(w, files) ==
    LET w1 == loadGitignore(w)
    IN  [w1 EXCEPT
            !.fileWatcher = TRUE,
            !.tasks = @ \cup {[kind |-> "scan", at |-> "stat", key |-> 0,
                               filePath |-> p, changeType |-> "none",
                               oldContent |-> NullContent,
                               newContent |-> NullContent, stopped |-> FALSE] :
                              p \in {q \in AllPaths : /\ files[q] # NullContent
                                                      /\ ~isExcluded(w1, q)}}]

\* recording.ts:1133-1226: no call of startRecording is waiting at its awaits
\* (addToGitignore at 1150, initializeFilesystemWatcher at 1183), and no
\* subscription set, 1 s timer or upload timer has been created
NoStarting == [gitignore |-> 0, watcher |-> 0,
               subscriptions |-> 0, intervals |-> 0, uploadIntervals |-> 0]
InitStarting == starting = NoStarting

Init ==
    InitEngine /\ InitHost /\ InitPersist /\ InitView /\ InitCsv /\ InitTerminals
    /\ InitWatcher /\ InitStarting

\* the log is unbounded in the program: a callback that logs runs while the log
\* is shorter than limit
Room(limit) == ~recording.isRecording \/ Len(recording.events) < limit

Called(name) == [op |-> name, before |-> Len(recording.events)]

\* ------------------------------------------------------- recording.ts:949
handleTextDocumentChange(document, changes, shown) ==
    /\ IF ~recording.isRecording
          \/ isCurrentFileExported(activeEditor)
          \/ activeEditor = NoEditor
          \/ document # activeEditor
       THEN UNCHANGED <<engineVars, editsSinceReport, lastOp>>
       ELSE /\ Len(editsSinceReport[document]) + Len(changes) <= MaxPending
            /\ LET st == LogContentChanges(
                             [rec |-> recording, hash |-> lastObservationHash],
                             now, document, changes, shown)
               IN  /\ recording' = st.rec
                   /\ lastObservationHash' = st.hash
            /\ lastUserInteractionTime' = now
            /\ lastUserEditedFile' = document
            /\ editsSinceReport' =
                   [editsSinceReport EXCEPT ![document] = @ \o changes]
            /\ lastOp' = Called("handleTextDocumentChange")
            /\ UNCHANGED previousFile
    /\ UNCHANGED <<now, panicVars, viewportChanged, gitVars, activeEditor>>

\* ------------------------------------------------------- recording.ts:979
\* isActive: event.textEditor is the active editor; hasSelection: selections[0] exists
handleSelectionChange(isActive, hasSelection, shown) ==
    /\ IF ~recording.isRecording
          \/ ~isActive
          \/ isCurrentFileExported(activeEditor)
          \/ ~hasSelection
          \/ activeEditor = NoEditor
       THEN UNCHANGED <<engineVars, lastOp>>
       ELSE /\ LET st == logObservationAndAction(
                             [rec |-> recording, hash |-> lastObservationHash], now,
                             [kind |-> "selection", source |-> "user",
                              file |-> activeEditor],
                             shown)
               IN  /\ recording' = st.rec
                   /\ lastObservationHash' = st.hash
            /\ lastOp' = Called("handleSelectionChange")
            /\ UNCHANGED <<previousFile, lastUserInteractionTime, lastUserEditedFile>>
    /\ UNCHANGED <<now, panicVars, viewportChanged, gitVars, activeEditor,
                   editsSinceReport>>

\* ------------------------------------------------------ recording.ts:1010
\* the host has made editor the active editor before it calls the handler
handleActiveEditorChange(editor, shown) ==
    /\ activeEditor' = editor
    /\ IF ~recording.isRecording
          \/ editor = NoEditor
          \/ isCurrentFileExported(editor)
       THEN UNCHANGED <<engineVars, lastOp>>
       ELSE /\ LET st == logObservationAndAction(
                             [rec |-> recording, hash |-> lastObservationHash], now,
                             [kind |-> "tab_switch", source |-> "user",
                              file |-> editor, previousFile |-> previousFile],
                             shown)
               IN  /\ recording' = st.rec
                   /\ lastObservationHash' = st.hash
            /\ previousFile' = editor
            /\ lastOp' = Called("handleActiveEditorChange")
            /\ UNCHANGED <<lastUserInteractionTime, lastUserEditedFile>>
    /\ UNCHANGED <<now, panicVars, viewportChanged, gitVars, editsSinceReport>>

\* ------------------------------------------------------ recording.ts:1032
handleTerminalFocus(terminalId, shown) ==
    /\ IF ~recording.isRecording \/ isCurrentFileExported(activeEditor)
       THEN UNCHANGED <<engineVars, lastOp>>
       ELSE /\ LET st == logObservationAndAction(
                             [rec |-> recording, hash |-> lastObservationHash], now,
                             [kind |-> "terminal_focus", source |-> "user",
                              terminalId |-> terminalId],
                             shown)
               IN  /\ recording' = st.rec
                   /\ lastObservationHash' = st.hash
            /\ lastOp' = Called("handleTerminalFocus")
            /\ UNCHANGED <<previousFile, lastUserInteractionTime, lastUserEditedFile>>
    /\ UNCHANGED <<now, panicVars, viewportChanged, gitVars, activeEditor,
                   editsSinceReport>>

\* ------------------------------------------------------ recording.ts:1047
handleTerminalCommand(terminalId, shown) ==
    /\ IF ~recording.isRecording \/ isCurrentFileExported(activeEditor)
       THEN UNCHANGED <<engineVars, lastOp>>
       ELSE /\ lastUserInteractionTime' = now
            /\ lastUserEditedFile' = NoFile
            /\ LET st == logObservationAndAction(
                             [rec |-> recording, hash |-> lastObservationHash], now,
                             [kind |-> "terminal_command", source |-> "user",
                              terminalId |-> terminalId],
                             shown)
               IN  /\ recording' = st.rec
                   /\ lastObservationHash' = st.hash
            /\ lastOp' = Called("handleTerminalCommand")
            /\ UNCHANGED previousFile
    /\ UNCHANGED <<now, panicVars, viewportChanged, gitVars, activeEditor,
                   editsSinceReport>>

\* ------------------------------------------------------ recording.ts:1065
\* variant: the handler pushes its event without looking at isRecording
handleTerminalOutput_NoLivenessCheck(terminalId) ==
    /\ recording' = [recording EXCEPT
           !.sequence = @ + 1,
           !.events = Append(@, [sequence |-> recording.sequence + 1,
                                 timestamp |-> now, type |-> "action",
                                 action |-> [kind |-> "terminal_output",
                                             source |-> "user",
                                             terminalId |-> terminalId]])]
    /\ lastOp' = Called("handleTerminalOutput")
    /\ UNCHANGED <<now, previousFile, lastUserInteractionTime, lastUserEditedFile,
                   lastObservationHash, panicVars, viewportChanged, gitVars,
                   activeEditor, editsSinceReport>>

handleTerminalOutput(terminalId) ==
    /\ IF ~recording.isRecording \/ isCurrentFileExported(activeEditor)
       THEN UNCHANGED <<recording, lastOp>>
       ELSE /\ recording' = logAction(recording, now,
                                [kind |-> "terminal_output", source |-> "user",
                                 terminalId |-> terminalId])
            /\ lastOp' = Called("handleTerminalOutput")
    /\ UNCHANGED <<now, previousFile, lastUserInteractionTime, lastUserEditedFile,
                   lastObservationHash, panicVars, viewportChanged, gitVars,
                   activeEditor, editsSinceReport>>

\* ------------------------------------------------------ recording.ts:1081
\* oldContent and newContent are the texts the diff was computed from
handleFileChange(file, changeType, diff, oldContent, newContent, shown) ==
    /\ IF ~recording.isRecording
       THEN UNCHANGED <<engineVars, sawHeadChange, editsSinceReport, lastOp>>
       ELSE LET timeSinceLastInteraction == now - lastUserInteractionTime
                isWithinWindow == timeSinceLastInteraction < USER_INTERACTION_WINDOW_MS
                isUserCausedChange ==
                    isWithinWindow /\ (lastUserEditedFile = NoFile
                                       \/ lastUserEditedFile = file)
                gitRecent == now - lastGitOperationTime <= GIT_OPERATION_WINDOW_MS
                called == [op |-> "handleFileChange",
                           before |-> Len(recording.events),
                           file |-> file, changeType |-> changeType,
                           oldContent |-> oldContent, newContent |-> newContent,
                           pending |-> editsSinceReport[file],
                           gitRecent |-> gitRecent,
                           headRecent |-> (now - lastHeadChangeTime
                                             <= GIT_OPERATION_WINDOW_MS)]
            IN  /\ lastOp' = called
                /\ editsSinceReport' =
                       IF gitRecent THEN [f \in Files |-> << >>]
                       ELSE [editsSinceReport EXCEPT ![file] = << >>]
                /\ IF isUserCausedChange
                   THEN UNCHANGED <<engineVars, sawHeadChange>>
                   ELSE LET g == getRecentGitOperation(now, lastGitOperationTime,
                                                       sawHeadChange)
                            source == IF g.result = "null" THEN "external" ELSE g.result
                            st == logObservationAndAction(
                                      [rec |-> recording, hash |-> lastObservationHash],
                                      now,
                                      [kind |-> "file_change", source |-> source,
                                       file |-> file, changeType |-> changeType,
                                       diff |-> diff],
                                      shown)
                        IN  /\ sawHeadChange' = g.sawHeadChange
                            /\ recording' = st.rec
                            /\ lastObservationHash' = st.hash
                            /\ UNCHANGED <<previousFile, lastUserInteractionTime,
                                           lastUserEditedFile>>
    /\ UNCHANGED <<now, panicVars, viewportChanged, lastGitOperationTime,
                   lastHeadChangeTime, activeEditor>>

\* ------------------------------------------------------- part_003:139-168
\* the watcher's processFileChange once the file is admitted: in is what it finds
processFileChange(file, in, shown) ==
    IF in.changeType = "delete"
    THEN handleFileChange(file, "delete", NullDiff, in.oldContent, NullContent, shown)
    ELSE IF in.newContent = NullContent
    THEN UNCHANGED vars
    ELSE LET diff == computeDiff(in.oldContent, in.newContent)
         IN  IF diff # NullDiff \/ in.changeType = "create"
             THEN handleFileChange(file, in.changeType, diff,
                                   in.oldContent, in.newContent, shown)
             ELSE UNCHANGED vars

\* --------------------------------------------- viewportCapture.ts:108-120
\* and recording.ts:1109 handleScrollObservation, the callback it delivers to
handleScrollObservation(observation) ==
    IF ~recording.isRecording \/ activeEditor = NoEditor
    THEN UNCHANGED <<recording, lastOp>>
    ELSE /\ recording' =
                logAction(logObservation(recording, now, observation), now,
                          [kind |-> "scroll", source |-> "user", file |-> activeEditor])
         /\ lastOp' = Called("handleScrollObservation")

pollViewport(shown) ==
    /\ listeners.pollInterval              \* setInterval(pollViewport, 100) is active
    /\ IF ~viewportChanged
       THEN UNCHANGED <<viewportChanged, lastObservationHash, recording, lastOp>>
       ELSE /\ viewportChanged' = FALSE
            /\ LET observation == captureObservation(shown)
                   hash == computeObservationHash(observation)
               IN  IF hash = lastObservationHash
                   THEN UNCHANGED <<lastObservationHash, recording, lastOp>>
                   ELSE /\ lastObservationHash' = hash
                        /\ handleScrollObservation(observation)
    /\ UNCHANGED <<now, previousFile, lastUserInteractionTime, lastUserEditedFile,
                   panicVars, gitVars, activeEditor, editsSinceReport>>

\* viewportCapture.ts:131 the onDidChangeTextEditorVisibleRanges listener
onDidChangeTextEditorVisibleRanges ==
    /\ listeners.visibleRangesDisposable
    /\ viewportChanged' = TRUE
    /\ UNCHANGED <<now, engineVars, panicVars, gitVars, activeEditor,
                   editsSinceReport, lastOp>>

\* ------------------------------------------------------ recording.ts:1133
\* variant: the counter of the earlier session is kept
startRecording_KeepsSequence(hasExportPath, shown) ==
    IF recording.isRecording \/ ~hasExportPath
    THEN UNCHANGED <<vars, hostVars, inFlight>>
    ELSE /\ recording' =
                logObservation(
                    [isRecording |-> TRUE, startDateTime |-> now, endDateTime |-> Null,
                     sequence |-> recording.sequence, events |-> << >>],
                    now, captureObservation(shown))
         /\ previousFile' = IF activeEditor = NoEditor THEN NoFile ELSE activeEditor
         /\ panicButtonPressCount' = 0
         /\ lastObservationHash' = NullHash
         /\ viewportChanged' = FALSE
         /\ editsSinceReport' = [f \in Files |-> << >>]
         /\ lastOp' = [op |-> "startRecording", before |-> 0]
         /\ listeners' = SessionListeners
         /\ lastPress' = NoPress
         /\ UNCHANGED <<now, panicButtonTimeoutId, lastUserInteractionTime,
                        lastUserEditedFile, gitVars, activeEditor, inFlight>>

startRecording(hasExportPath, shown) ==
    IF recording.isRecording \/ ~hasExportPath
    THEN UNCHANGED <<vars, hostVars, inFlight>>
    ELSE /\ recording' =
                logObservation(
                    [isRecording |-> TRUE, startDateTime |-> now, endDateTime |-> Null,
                     sequence |-> 0, events |-> << >>],
                    now, captureObservation(shown))
         /\ previousFile' = IF activeEditor = NoEditor THEN NoFile ELSE activeEditor
         /\ panicButtonPressCount' = 0
         /\ lastObservationHash' = NullHash
         /\ viewportChanged' = FALSE
         /\ editsSinceReport' = [f \in Files |-> << >>]
         /\ lastOp' = [op |-> "startRecording", before |-> 0]
         /\ listeners' = SessionListeners
         /\ lastPress' = NoPress
         /\ UNCHANGED <<now, panicButtonTimeoutId, lastUserInteractionTime,
                        lastUserEditedFile, gitVars, activeEditor, inFlight>>

\* recording.ts:1133-1226 startRecording with what it does to the capture
\* modules: resetTerminalState (1165), resetFilesystemState (1166),
\* initializeTerminalCapture (1178) and initializeFilesystemWatcher (1183)
startSession(hasExportPath, shown) ==
    /\ startRecording(hasExportPath, shown)
    /\ tracker' = IF recording.isRecording \/ ~hasExportPath
                  THEN tracker
                  ELSE initializeTerminalCapture(resetTerminalState(tracker), terminals)
    /\ watcher' = IF recording.isRecording \/ ~hasExportPath
                  THEN watcher
                  ELSE initializeFilesystemWatcher(resetFilesystemState(watcher), disk)
    /\ UNCHANGED <<consent, viewVars, csv, terminals, disk, starting>>

\* recording.ts:1279-1283 saveRecording reaches its writeFile
saveRecordingWrites(hasExportPath, startDateTime) ==
    hasExportPath /\ startDateTime # Null

\* ------------------------------------------------------ recording.ts:1228
\* variant: stop without the early return for a session that is not live
stopRecording_NoEarlyReturn(force, hasExportPath) ==
    /\ recording' = [recording EXCEPT
                        !.isRecording = FALSE,
                        !.endDateTime = now,
                        !.events = IF force THEN << >> ELSE @]
    /\ panicButtonTimeoutId' = Null
    /\ panicButtonPressCount' = 0
    /\ listeners' = [listeners EXCEPT !.intervalId = FALSE,
                                      !.uploadIntervalId = FALSE,
                                      !.subscriptions = FALSE]
    /\ lastPress' = NoPress
    /\ inFlight' = [inFlight EXCEPT
           !.saves = IF ~force /\ saveRecordingWrites(hasExportPath,
                                                      recording.startDateTime)
                     THEN @ + 1 ELSE @]
    /\ lastOp' = [op |-> "stopRecording", before |-> Len(recording.events)]
    /\ UNCHANGED <<now, previousFile, lastUserInteractionTime, lastUserEditedFile,
                   lastObservationHash, viewportChanged, gitVars, activeEditor,
                   editsSinceReport>>

\* hasExportPath: getExportPath() returns a path when saveRecording asks
stopRecording(force, hasExportPath) ==
    IF ~recording.isRecording
    THEN UNCHANGED <<vars, hostVars, inFlight>>
    ELSE /\ recording' = [recording EXCEPT
                             !.isRecording = FALSE,
                             !.endDateTime = now,
                             !.events = IF force THEN << >> ELSE @]
         /\ panicButtonTimeoutId' = Null
         /\ panicButtonPressCount' = 0
         /\ listeners' = [listeners EXCEPT !.intervalId = FALSE,
                                           !.uploadIntervalId = FALSE,
                                           !.subscriptions = FALSE]
         /\ lastPress' = NoPress
         /\ inFlight' = [inFlight EXCEPT
                !.saves = IF ~force /\ saveRecordingWrites(hasExportPath,
                                                           recording.startDateTime)
                          THEN @ + 1 ELSE @]
         /\ lastOp' = [op |-> "stopRecording", before |-> Len(recording.events)]
         /\ UNCHANGED <<now, previousFile, lastUserInteractionTime, lastUserEditedFile,
                        lastObservationHash, viewportChanged, gitVars, activeEditor,
                        editsSinceReport>>

\* ------------------------------------------------------ recording.ts:1409
\* recording.ts:1302-1313 the writeFile that saveRecording awaits settles; a
\* failure is caught and logged
saveSettled ==
    /\ inFlight.saves > 0
    /\ inFlight' = [inFlight EXCEPT !.saves = @ - 1]
    /\ UNCHANGED <<now, engineVars, panicVars, viewportChanged, gitVars, activeEditor,
                   editsSinceReport, lastOp, hostVars>>

\* ------------------------------------------------------ recording.ts:1315
\* variant: the upload does not ask for consent
uploadRecording_NoConsentCheck(hasEndpoint, hasExportPath) ==
    /\ listeners.uploadIntervalId
    /\ IF ~recording.isRecording \/ ~hasEndpoint
          \/ ~hasExportPath \/ recording.startDateTime = Null
       THEN /\ lastOp' = [op |-> "uploadRecording", before |-> Len(recording.events),
                          hasEndpoint |-> hasEndpoint, issued |-> FALSE,
                          previous |-> lastOp.op]
            /\ UNCHANGED inFlight
       ELSE /\ lastOp' = [op |-> "uploadRecording", before |-> Len(recording.events),
                          hasEndpoint |-> hasEndpoint, issued |-> TRUE,
                          previous |-> lastOp.op]
            /\ inFlight' = [inFlight EXCEPT !.posts = @ + 1]
    /\ UNCHANGED <<now, engineVars, panicVars, viewportChanged, gitVars, activeEditor,
                   editsSinceReport, hostVars>>

\* the callback of the 5-minute interval set at recording.ts:1208; the time the
\* post takes is not bounded (axios is called without a timeout), so the
\* callback may run again before an earlier post has settled.
\* hasEndpoint: CROWD_CODE_API_GATEWAY_URL is a non-blank string
uploadRecording(hasEndpoint, hasExportPath) ==
    /\ listeners.uploadIntervalId
    /\ IF ~recording.isRecording \/ consent # "accepted" \/ ~hasEndpoint
          \/ ~hasExportPath \/ recording.startDateTime = Null
       THEN /\ lastOp' = [op |-> "uploadRecording", before |-> Len(recording.events),
                          hasEndpoint |-> hasEndpoint, issued |-> FALSE,
                          previous |-> lastOp.op]
            /\ UNCHANGED inFlight
       ELSE /\ lastOp' = [op |-> "uploadRecording", before |-> Len(recording.events),
                          hasEndpoint |-> hasEndpoint, issued |-> TRUE,
                          previous |-> lastOp.op]
            /\ inFlight' = [inFlight EXCEPT !.posts = @ + 1]
    /\ UNCHANGED <<now, engineVars, panicVars, viewportChanged, gitVars, activeEditor,
                   editsSinceReport, hostVars>>

\* variant: a failed post is sent again at once
uploadSettled_RetriesFailure(ok) ==
    /\ inFlight.posts > 0
    /\ inFlight' = IF ok THEN [inFlight EXCEPT !.posts = @ - 1] ELSE inFlight
    /\ lastOp' = [op |-> IF ok THEN "uploadSucceeded" ELSE "uploadFailed",
                  before |-> Len(recording.events)]
    /\ UNCHANGED <<now, engineVars, panicVars, viewportChanged, gitVars, activeEditor,
                   editsSinceReport, hostVars>>

\* recording.ts:1343-1356 the post settles; a rejection is caught and logged
uploadSettled(ok) ==
    /\ inFlight.posts > 0
    /\ inFlight' = [inFlight EXCEPT !.posts = @ - 1]
    /\ lastOp' = [op |-> IF ok THEN "uploadSucceeded" ELSE "uploadFailed",
                  before |-> Len(recording.events)]
    /\ UNCHANGED <<now, engineVars, panicVars, viewportChanged, gitVars, activeEditor,
                   editsSinceReport, hostVars>>

\* consent.ts:17 the consent dialog or command stores a status
setConsentStatus(status) ==
    /\ consent' = status
    /\ UNCHANGED <<vars, hostVars, inFlight, viewVars, csv, termVars, watchVars,
                   starting>>

\* variant: the redaction keeps the event logged exactly at the cutoff
panicButton_KeepsCutoffEvent ==
    IF ~recording.isRecording \/ recording.startDateTime = Null
    THEN UNCHANGED <<vars, lastPress>>
    ELSE /\ panicButtonPressCount < MaxPresses
         /\ LET secondsToRemove == (panicButtonPressCount + 1) * PANIC_SECONDS_PER_PRESS
                cutoffTime == now - secondsToRemove * 1000
                kept == SelectSeq(recording.events, LAMBDA e : e.timestamp <= cutoffTime)
            IN  /\ recording' = [recording EXCEPT
                        !.events = kept,
                        !.sequence = IF Len(kept) > 0 THEN kept[Len(kept)].sequence
                                     ELSE 0]
                /\ lastOp' = [op |-> "panicButton", before |-> Len(recording.events),
                              cutoffTime |-> cutoffTime,
                              removedCount |-> Len(recording.events) - Len(kept),
                              returned |-> Null]
                /\ lastPress' = [time |-> now, window |-> secondsToRemove * 1000,
                                 previous |-> lastPress.window]
         /\ panicButtonPressCount' = panicButtonPressCount + 1
         /\ panicButtonTimeoutId' = now + PANIC_BUTTON_TIMEOUT
         /\ UNCHANGED <<now, previousFile, lastUserInteractionTime, lastUserEditedFile,
                        lastObservationHash, viewportChanged, gitVars, activeEditor,
                        editsSinceReport>>

\* variant: the redaction filters the log and leaves the counter where it was
panicButton_NoSequenceRewind ==
    IF ~recording.isRecording \/ recording.startDateTime = Null
    THEN UNCHANGED <<vars, lastPress>>
    ELSE /\ panicButtonPressCount < MaxPresses
         /\ LET secondsToRemove == (panicButtonPressCount + 1) * PANIC_SECONDS_PER_PRESS
                cutoffTime == now - secondsToRemove * 1000
                kept == SelectSeq(recording.events, LAMBDA e : e.timestamp < cutoffTime)
            IN  /\ recording' = [recording EXCEPT !.events = kept]
                /\ lastOp' = [op |-> "panicButton", before |-> Len(recording.events),
                              cutoffTime |-> cutoffTime,
                              removedCount |-> Len(recording.events) - Len(kept),
                              returned |-> Null]
                /\ lastPress' = [time |-> now, window |-> secondsToRemove * 1000,
                                 previous |-> lastPress.window]
         /\ panicButtonPressCount' = panicButtonPressCount + 1
         /\ panicButtonTimeoutId' = now + PANIC_BUTTON_TIMEOUT
         /\ UNCHANGED <<now, previousFile, lastUserInteractionTime, lastUserEditedFile,
                        lastObservationHash, viewportChanged, gitVars, activeEditor,
                        editsSinceReport>>

panicButton ==
    IF ~recording.isRecording \/ recording.startDateTime = Null
    THEN UNCHANGED <<vars, lastPress>>
    ELSE /\ panicButtonPressCount < MaxPresses
         /\ LET secondsToRemove == (panicButtonPressCount + 1) * PANIC_SECONDS_PER_PRESS
                cutoffTime == now - secondsToRemove * 1000
                kept == SelectSeq(recording.events, LAMBDA e : e.timestamp < cutoffTime)
            IN  /\ recording' = [recording EXCEPT
                        !.events = kept,
                        !.sequence = IF Len(kept) > 0 THEN kept[Len(kept)].sequence
                                     ELSE 0]
                /\ lastOp' = [op |-> "panicButton", before |-> Len(recording.events),
                              cutoffTime |-> cutoffTime,
                              removedCount |-> Len(recording.events) - Len(kept),
                              returned |-> Null]
                /\ lastPress' = [time |-> now, window |-> secondsToRemove * 1000,
                                 previous |-> lastPress.window]
         /\ panicButtonPressCount' = panicButtonPressCount + 1
         /\ panicButtonTimeoutId' = now + PANIC_BUTTON_TIMEOUT
         /\ UNCHANGED <<now, previousFile, lastUserInteractionTime, lastUserEditedFile,
                        lastObservationHash, viewportChanged, gitVars, activeEditor,
                        editsSinceReport>>

\* variant: the timeout fires and the press count stays
panicButtonTimeout_KeepsCount ==
    /\ panicButtonTimeoutId # Null
    /\ now >= panicButtonTimeoutId
    /\ panicButtonTimeoutId' = Null
    /\ UNCHANGED <<now, engineVars, viewportChanged, gitVars, activeEditor,
                   editsSinceReport, lastOp, panicButtonPressCount>>

\* recording.ts:1441 the timeout set by panicButton fires
panicButtonTimeout ==
    /\ panicButtonTimeoutId # Null
    /\ now >= panicButtonTimeoutId
    /\ panicButtonPressCount' = 0
    /\ panicButtonTimeoutId' = Null
    /\ UNCHANGED <<now, engineVars, viewportChanged, gitVars, activeEditor,
                   editsSinceReport, lastOp>>

\* ------------------------------------------------------------ part_007:53
gitHeadWatcherOnDidChange ==
    /\ sawHeadChange' = TRUE
    /\ lastGitOperationTime' = now
    /\ lastHeadChangeTime' = now
    /\ UNCHANGED <<now, engineVars, panicVars, viewportChanged, activeEditor,
                   editsSinceReport, lastOp>>

\* part_007:63-74 a ref under .git/refs changed, was created or deleted
gitRefsWatcherOnDidChange ==
    /\ lastGitOperationTime' = now
    /\ UNCHANGED <<now, engineVars, panicVars, viewportChanged, sawHeadChange,
                   lastHeadChangeTime, activeEditor, editsSinceReport, lastOp>>

\* ------------------------------------------------------------------ clock
\* time passes; a timeout that is due fires before time passes it by
Tick(d, limit) ==
    /\ now + d <= limit
    /\ panicButtonTimeoutId = Null \/ now + d <= panicButtonTimeoutId
    /\ now' = now + d
    /\ UNCHANGED <<engineVars, panicVars, viewportChanged, gitVars, activeEditor,
                   editsSinceReport, lastOp>>

\* ------------------------------------------------- the engine's entry points
UserAction ==
    \/ \E document \in Files \cup {ExportedFile}, changes \in ContentChangeLists,
          shown \in Observations :
           handleTextDocumentChange(document, changes, shown)
    \/ \E isActive \in BOOLEAN, hasSelection \in BOOLEAN, shown \in Observations :
           handleSelectionChange(isActive, hasSelection, shown)
    \/ \E editor \in Editors, shown \in Observations :
           handleActiveEditorChange(editor, shown)
    \/ \E terminalId \in Terminals, shown \in Observations :
           handleTerminalFocus(terminalId, shown)
    \/ \E terminalId \in Terminals, shown \in Observations :
           handleTerminalCommand(terminalId, shown)
    \/ \E terminalId \in Terminals : handleTerminalOutput(terminalId)

\* the writes of earlier stops are bounded: stop runs while fewer than MaxSaves
\* are in flight
SaveRoom == ~recording.isRecording \/ inFlight.saves < MaxSaves

Next ==
    \/ Room(MaxEvents) /\ UserAction /\ UNCHANGED <<hostVars, inFlight, outerVars>>
    \/ \E file \in Files, in \in BasicReports, shown \in Observations :
           /\ Room(MaxEvents) /\ processFileChange(file, in, shown)
           /\ UNCHANGED <<hostVars, inFlight, outerVars>>
    \/ \E shown \in Observations :
           /\ Room(MaxEvents) /\ pollViewport(shown)
           /\ UNCHANGED <<hostVars, inFlight, outerVars>>
    \/ onDidChangeTextEditorVisibleRanges /\ UNCHANGED <<hostVars, inFlight, outerVars>>
    \/ \E hasExportPath \in BOOLEAN, shown \in Observations :
           startSession(hasExportPath, shown)
    \/ \E force \in BOOLEAN, hasExportPath \in BOOLEAN :
           SaveRoom /\ stopRecording(force, hasExportPath) /\ UNCHANGED outerVars
    \/ saveSettled /\ UNCHANGED outerVars

Spec == Init /\ [][Next]_allVars

\* ------------------------- file changes, user input, git signals and the clock
\* a session just started with a.txt in the active editor:
\* Init, handleActiveEditorChange("a.txt", Shown0), startRecording(TRUE, Shown0)
InitFiles ==
    /\ now = StartClock
    /\ recording = [isRecording |-> TRUE, startDateTime |-> StartClock,
                    endDateTime |-> Null, sequence |-> 1,
                    events |-> << [sequence |-> 1, timestamp |-> StartClock,
                                   type |-> "observation",
                                   observation |-> Shown0] >>]
    /\ previousFile = "a.txt"
    /\ panicButtonPressCount = 0
    /\ panicButtonTimeoutId = Null
    /\ lastUserInteractionTime = 0
    /\ lastUserEditedFile = NoFile
    /\ lastObservationHash = NullHash
    /\ viewportChanged = FALSE
    /\ sawHeadChange = FALSE
    /\ lastGitOperationTime = 0
    /\ activeEditor = "a.txt"
    /\ lastHeadChangeTime = 0
    /\ editsSinceReport = [f \in Files |-> << >>]
    /\ lastOp = [op |-> "startRecording", before |-> 0]
    /\ listeners = SessionListeners
    /\ lastPress = NoPress
    /\ InitPersist
    /\ InitView
    /\ InitCsv
    /\ terminals = NoTerminals
    /\ tracker = initializeTerminalCapture(resetTerminalState(NoTracker), NoTerminals)
    /\ disk = NoDisk
    /\ watcher = initializeFilesystemWatcher(resetFilesystemState(NoWatcher), NoDisk)
    /\ InitStarting

NextFiles ==
    \/ \E document \in Files, changes \in ContentChangeLists :
           /\ Room(MaxEventsFiles)
           /\ handleTextDocumentChange(document, changes, Shown0)
           /\ UNCHANGED <<hostVars, inFlight, outerVars>>
    \/ \E terminalId \in Terminals :
           /\ Room(MaxEventsFiles) /\ handleTerminalCommand(terminalId, Shown0)
           /\ UNCHANGED <<hostVars, inFlight, outerVars>>
    \/ \E file \in Files, in \in ReportInputs :
           /\ Room(MaxEventsFiles) /\ processFileChange(file, in, Shown0)
           /\ UNCHANGED <<hostVars, inFlight, outerVars>>
    \/ gitHeadWatcherOnDidChange /\ UNCHANGED <<hostVars, inFlight, outerVars>>
    \/ gitRefsWatcherOnDidChange /\ UNCHANGED <<hostVars, inFlight, outerVars>>
    \/ \E d \in StepsFiles :
           Tick(d, MaxTimeFiles) /\ UNCHANGED <<hostVars, inFlight, outerVars>>

SpecFiles == InitFiles /\ [][NextFiles]_allVars

\* ------------------------------------- panic redaction, logging and the clock
NextPanic ==
    \/ \E shown \in Observations : startSession(TRUE, shown)
    \/ \E force \in BOOLEAN, hasExportPath \in BOOLEAN :
           SaveRoom /\ stopRecording(force, hasExportPath) /\ UNCHANGED outerVars
    \/ saveSettled /\ UNCHANGED outerVars
    \/ \E editor \in {"a.txt", NoEditor}, shown \in Observations :
           /\ Room(MaxEvents) /\ handleActiveEditorChange(editor, shown)
           /\ UNCHANGED <<hostVars, inFlight, outerVars>>
    \/ \E terminalId \in Terminals :
           /\ Room(MaxEvents) /\ handleTerminalOutput(terminalId)
           /\ UNCHANGED <<hostVars, inFlight, outerVars>>
    \/ panicButton /\ UNCHANGED <<listeners, inFlight, outerVars>>
    \/ panicButtonTimeout /\ UNCHANGED <<hostVars, inFlight, outerVars>>
    \/ \E d \in StepsPanic :
           Tick(d, MaxTimePanic) /\ UNCHANGED <<hostVars, inFlight, outerVars>>

SpecPanic == Init /\ [][NextPanic]_allVars

\* ================================================================== claims
Events == recording.events
LastEvent == Events[Len(Events)]
UserHandlers == {"handleSelectionChange", "handleActiveEditorChange",
                 "handleTerminalFocus", "handleTerminalCommand"}
KindOf(op) ==
    CASE op = "handleSelectionChange" -> "selection"
      [] op = "handleActiveEditorChange" -> "tab_switch"
      [] op = "handleTerminalFocus" -> "terminal_focus"
      [] op = "handleTerminalCommand" -> "terminal_command"
      [] OTHER -> "none"

\* C1: the events of the in-memory log carry contiguous, strictly increasing
\* sequence numbers, and while a session is live the counter is the sequence of
\* the log's last event (0 for an empty log), so that the next event logged,
\* also after a panic redaction, gets the tail's sequence plus one.
C1_SequenceContiguous ==
    /\ \A i \in 1..(Len(Events) - 1) : Events[i + 1].sequence = Events[i].sequence + 1
    /\ recording.isRecording =>
           recording.sequence = IF Len(Events) > 0 THEN LastEvent.sequence ELSE 0

\* C1 witness: one panic press kept an older event and removed a newer one, and
\* an event was logged after the press.
C1_Witness ==
    /\ recording.isRecording
    /\ panicButtonPressCount = 1
    /\ panicButtonTimeoutId # Null
    /\ Len(Events) >= 2
    /\ Events[1].timestamp < panicButtonTimeoutId - PANIC_BUTTON_TIMEOUT
                              - PANIC_SECONDS_PER_PRESS * 1000
    /\ LastEvent.timestamp >= panicButtonTimeoutId - PANIC_BUTTON_TIMEOUT

EntryPointStep ==
    \/ UserAction
    \/ \E file \in Files, in \in ReportInputs, shown \in Observations :
           processFileChange(file, in, shown)
    \/ \E shown \in Observations : pollViewport(shown)

\* C3: while isRecording is false, a call of an entry point (edit, selection, tab
\* switch, terminal focus, command and output, file change, scroll observation)
\* changes neither the event log nor the sequence counter.
C3_EntryPointsNoOpWhenIdle ==
    [][(~recording.isRecording /\ EntryPointStep)
          => (recording'.events = recording.events
              /\ recording'.sequence = recording.sequence
              /\ ~recording'.isRecording)]_vars

\* C3 witness: no session is live, an earlier session left events in the log, and
\* a tab switch has been handled since the stop (previousFile was not updated).
C3_Witness ==
    /\ ~recording.isRecording
    /\ recording.endDateTime # Null
    /\ Len(Events) > 0
    /\ activeEditor \in Files
    /\ previousFile \in Files
    /\ activeEditor # previousFile

\* C4: stop-recording invoked while not recording changes neither the event log
\* nor the sequence counter nor the start and end time.
C4_StopWhenIdleChangesNothing ==
    [][(~recording.isRecording
          /\ \E force \in BOOLEAN, hasExportPath \in BOOLEAN :
                 stopRecording(force, hasExportPath))
          => recording' = recording]_vars

\* C4 witness: no session is live and the last session left a log, a counter and
\* both times to preserve.
C4_Witness ==
    /\ ~recording.isRecording
    /\ Len(Events) > 0
    /\ recording.sequence > 0
    /\ recording.startDateTime # Null
    /\ recording.endDateTime # Null

\* ------------------------------------------- file-change attribution claims
\* one edit applied to a text
ApplyEdit(content, change) ==
    SubSeq(content, 1, change.rangeOffset)
        \o change.text
        \o SubSeq(content, change.rangeOffset + change.rangeLength + 1, Len(content))

RECURSIVE Replay(_, _)
\* the user-only baseline: edits replayed in order over content
Replay(edits, content) ==
    IF edits = << >> THEN content
    ELSE Replay(Tail(edits), ApplyEdit(content, Head(edits)))

\* the last callback was a file change delivered to a live session
FileChangeHandled == lastOp.op = "handleFileChange"
\* ... and it appended a FileChange action as the last event
FileChangeLogged ==
    /\ Len(Events) > lastOp.before
    /\ LastEvent.type = "action"
    /\ LastEvent.action.kind = "file_change"
    /\ LastEvent.action.file = lastOp.file

\* C5: a modification of a file the user has edited since its last report, with
\* no recent version-control signal, whose new content differs from the edits
\* replayed over the old content, is logged as a FileChange with source agent
\* whose diff goes from the replayed baseline to the new content.
C5_MixedChangeLoggedAsAgentDelta ==
    (/\ FileChangeHandled
     /\ lastOp.changeType = "change"
     /\ ~lastOp.gitRecent
     /\ lastOp.pending # << >>
     /\ Replay(lastOp.pending, lastOp.oldContent) # lastOp.newContent)
    => /\ FileChangeLogged
       /\ LastEvent.action.source = "agent"
       /\ LastEvent.action.diff =
              computeDiff(Replay(lastOp.pending, lastOp.oldContent), lastOp.newContent)

\* C6: a modification whose new content equals the user's edits replayed over the
\* old content appends nothing to the log (no FileChange action).
C6_UserExplainedChangeDropped ==
    (/\ FileChangeHandled
     /\ lastOp.changeType = "change"
     /\ ~lastOp.gitRecent
     /\ lastOp.pending # << >>
     /\ Replay(lastOp.pending, lastOp.oldContent) = lastOp.newContent)
    => Len(Events) = lastOp.before

\* C7: a file change that reaches the engine within 500 ms after a
\* version-control signal is logged as a FileChange with a version-control source,
\* whatever user input happened shortly before.
C7_ChangeAfterGitSignalLoggedAsGit ==
    (FileChangeHandled /\ lastOp.gitRecent)
    => /\ FileChangeLogged
       /\ LastEvent.action.source \in {"git", "git_checkout"}
       /\ lastOp.changeType # "delete" =>
              LastEvent.action.diff = computeDiff(lastOp.oldContent, lastOp.newContent)

\* C8: with no user input in the session, every file change that arrives within
\* 500 ms after a change of .git/HEAD is logged with the checkout source.
C8_WholeBurstIsCheckout ==
    (FileChangeHandled /\ lastOp.headRecent /\ lastUserInteractionTime = 0)
    => /\ FileChangeLogged
       /\ LastEvent.action.source = "git_checkout"

\* C9: with no recent version-control signal and no user edit of the file since
\* its last report, a file change is logged with source unknown when it is a
\* create or delete and with source agent when it is a modification.
C9_UnexplainedChangeIsUnknownOrAgent ==
    (FileChangeHandled /\ ~lastOp.gitRecent /\ lastOp.pending = << >>
        /\ lastUserInteractionTime = 0)
    => /\ FileChangeLogged
       /\ LastEvent.action.source =
              IF lastOp.changeType = "change" THEN "agent" ELSE "unknown"

\* C10: the first modification of a session that neither a version-control
\* signal nor user input explains (the first agent change of its batch) is
\* directly preceded in the log by a WorkspaceSnapshot event.
C10_SnapshotBeforeFirstAgentChange ==
    (/\ FileChangeHandled
     /\ lastOp.changeType = "change"
     /\ ~lastOp.gitRecent
     /\ lastOp.pending = << >>
     /\ lastUserInteractionTime = 0
     /\ \A i \in 1..lastOp.before : Events[i].type # "action")
    => /\ FileChangeLogged
       /\ Len(Events) >= 2
       /\ Events[Len(Events) - 1].type = "workspace_snapshot"

\* C34: a file change that the user's buffered edits do not explain (a create or
\* delete, or a modification whose new content differs from the edits replayed
\* over the old content) is logged as a FileChange, however recently the user
\* edited the file or ran a terminal command.
C34_UnexplainedChangeLoggedInsideWindow ==
    (/\ FileChangeHandled
     /\ lastOp.changeType = "change" =>
            Replay(lastOp.pending, lastOp.oldContent) # lastOp.newContent)
    => FileChangeLogged

\* ------------------------------------------------------- viewport capture
\* the host scrolls, folds, moves the cursor or switches the editor
changeEditorView(view) ==
    /\ editorView' = view
    /\ UNCHANGED <<vars, hostVars, inFlight, consent, capturedViewport, csv, termVars,
                   watchVars, starting>>

\* a caller of captureViewportState takes a capture
captureViewport ==
    /\ capturedViewport' = captureViewportState(editorView)
    /\ UNCHANGED <<vars, hostVars, inFlight, consent, editorView, csv, termVars,
                   watchVars, starting>>

NextViewport ==
    \/ \E view \in EditorViews : changeEditorView(view)
    \/ captureViewport

SpecViewport == Init /\ [][NextViewport]_allVars

\* C11: every captured ViewportState that has a cursor position satisfies
\* startLine <= cursorPosition.line <= endLine.
C11_CursorWithinViewport ==
    (~capturedViewport.isNull /\ capturedViewport.cursorPosition # NullCursor)
    => /\ capturedViewport.startLine <= capturedViewport.cursorPosition
       /\ capturedViewport.cursorPosition <= capturedViewport.endLine

\* ---------------------------------------------------- the panic window
NextWindow ==
    \/ startSession(TRUE, Shown0)
    \/ \E force \in BOOLEAN :
           SaveRoom /\ stopRecording(force, TRUE) /\ UNCHANGED outerVars
    \/ saveSettled /\ UNCHANGED outerVars
    \/ \E terminalId \in Terminals :
           /\ Room(MaxEvents) /\ handleTerminalOutput(terminalId)
           /\ UNCHANGED <<hostVars, inFlight, outerVars>>
    \/ panicButton /\ UNCHANGED <<listeners, inFlight, outerVars>>
    \/ panicButtonTimeout /\ UNCHANGED <<hostVars, inFlight, outerVars>>
    \/ \E d \in StepsWindow :
           Tick(d, MaxTimeWindow) /\ UNCHANGED <<hostVars, inFlight, outerVars>>

SpecWindow == Init /\ [][NextWindow]_allVars

\* a press of the panic button in a live session
PanicPress == recording.isRecording /\ recording.startDateTime # Null /\ panicButton

\* C12 as stated: a panic redaction at time now with window w removes exactly
\* the events with timestamp >= now - w, keeps every older event, returns the
\* number removed and sets the sequence counter to the sequence of the new last
\* event (0 if the log is empty).
C12_PanicReturnsRemovedCount ==
    [][PanicPress =>
          LET old == recording.events
              new == recording'.events
              cutoff == now - lastPress'.window
          IN  /\ \A i \in 1..Len(old) :
                     (old[i] \in {new[j] : j \in 1..Len(new)})
                         <=> (old[i].timestamp < cutoff)
              /\ lastOp'.returned = Len(old) - Len(new)
              /\ recording'.sequence =
                     IF Len(new) > 0 THEN new[Len(new)].sequence ELSE 0]_allVars

\* C12 amended: a panic redaction at time now with window w removes exactly the
\* events with timestamp >= now - w, keeps every older event unchanged and in
\* place, shows the number removed in its notification (it returns nothing), and
\* sets the sequence counter to the sequence of the new last event (0 if the log
\* is empty).
C12_PanicRemovesExactlyTheWindow ==
    [][PanicPress =>
          LET old == recording.events
              new == recording'.events
              cutoff == now - lastPress'.window
          IN  /\ Len(new) <= Len(old)
              /\ new = SubSeq(old, 1, Len(new))
              /\ \A i \in 1..Len(old) : (i <= Len(new)) <=> (old[i].timestamp < cutoff)
              /\ lastOp'.removedCount = Len(old) - Len(new)
              /\ lastOp'.returned = Null
              /\ recording'.sequence =
                     IF Len(new) > 0 THEN new[Len(new)].sequence ELSE 0]_allVars

\* C12 witness: a press removed at least one event and kept at least one.
C12_Witness ==
    /\ lastOp.op = "panicButton"
    /\ lastOp.removedCount > 0
    /\ Len(Events) > 0
    /\ lastOp.before = Len(Events) + lastOp.removedCount

\* C13: the window of a press is 10 s when the session has no earlier press or
\* the last one is more than 3 s ago, and 10 s more than the last press's window
\* when that press is less than 3 s ago; session start and stop forget the
\* earlier presses.  (At exactly 3 s the timeout and the press race.)
C13_WindowGrowsAndResets ==
    [][PanicPress =>
          LET elapsed == now - lastPress.time
              first == PANIC_SECONDS_PER_PRESS * 1000
              grown == lastPress.window + PANIC_SECONDS_PER_PRESS * 1000
          IN  IF lastPress.time = Null \/ elapsed > PANIC_BUTTON_TIMEOUT
              THEN lastPress'.window = first
              ELSE IF elapsed < PANIC_BUTTON_TIMEOUT
              THEN lastPress'.window = grown
              ELSE lastPress'.window \in {first, grown}]_allVars

\* C13 witness: a press with a 10 s window that follows a press with a 20 s
\* window in the same session.
C13_Witness ==
    /\ lastPress.time # Null
    /\ lastPress.window = PANIC_SECONDS_PER_PRESS * 1000
    /\ lastPress.previous = 2 * PANIC_SECONDS_PER_PRESS * 1000
    /\ panicButtonPressCount = 1

\* ------------------------------------------------- persistence and upload
NextUpload ==
    \/ startSession(TRUE, Shown0)
    \/ \E force \in BOOLEAN, hasExportPath \in BOOLEAN :
           SaveRoom /\ stopRecording(force, hasExportPath) /\ UNCHANGED outerVars
    \/ saveSettled /\ UNCHANGED outerVars
    \/ \E terminalId \in Terminals :
           /\ Room(MaxEvents) /\ handleTerminalOutput(terminalId)
           /\ UNCHANGED <<hostVars, inFlight, outerVars>>
    \/ \E hasEndpoint \in BOOLEAN, hasExportPath \in BOOLEAN :
           /\ inFlight.posts < MaxPosts
           /\ uploadRecording(hasEndpoint, hasExportPath)
           /\ UNCHANGED outerVars
    \/ \E ok \in BOOLEAN : uploadSettled(ok) /\ UNCHANGED outerVars
    \/ \E status \in ConsentStatuses : setConsentStatus(status)

SpecUpload == Init /\ [][NextUpload]_allVars

UploadTick ==
    \E hasEndpoint \in BOOLEAN, hasExportPath \in BOOLEAN :
        uploadRecording(hasEndpoint, hasExportPath)

\* C14: a periodic tick that fires while an earlier post or the write of a stop
\* has not settled is skipped: it starts nothing.
C14_TickSkippedWhileInFlight ==
    [][(UploadTick /\ inFlight.posts + inFlight.saves > 0)
          => inFlight' = inFlight]_allVars

\* C15: when a save completes, the in-memory log is empty.
C15_CompletedSaveEmptiesLog ==
    [][(saveSettled /\ recording.events # << >>)
          => recording'.events = << >>]_allVars

C17_FailedUploadLeavesSession ==
    [][/\ (UploadTick \/ uploadSettled(FALSE)) => recording' = recording
       /\ uploadSettled(FALSE)
          => /\ inFlight'.posts = inFlight.posts - 1
             /\ inFlight'.saves = inFlight.saves
             /\ listeners' = listeners]_allVars

\* C17 witness: the tick after a failed post issued a post of its own.
C17_Witness ==
    /\ lastOp.op = "uploadRecording"
    /\ lastOp.issued
    /\ lastOp.previous = "uploadFailed"
    /\ recording.isRecording
    /\ inFlight.posts = 1

\* C18: the step that starts a session leaves a log that holds the initial
\* observation alone, with sequence 1, and the counter at 1, whatever the log and
\* the counter of the earlier sessions were.
C18_SessionStartsAtSequenceOne ==
    [][(~recording.isRecording /\ recording'.isRecording)
          => /\ Len(recording'.events) = 1
             /\ recording'.events[1].sequence = 1
             /\ recording'.events[1].type = "observation"
             /\ recording'.sequence = 1
             /\ recording'.startDateTime = now
             /\ recording'.endDateTime = Null]_allVars

\* C18 witness: a session was started while the write of the previous session's
\* log was still in flight, and its log holds one event with sequence 1.
C18_Witness ==
    /\ lastOp.op = "startRecording"
    /\ recording.isRecording
    /\ inFlight.saves > 0
    /\ Len(Events) = 1
    /\ recording.sequence = 1

\* C20: once stop-recording has run, none of the listeners, timers, polls and
\* watchers of the session is active: the editor subscriptions, the 1 s timer,
\* the upload timer, the panic timeout, the viewport poll and its visibility
\* listener, the terminal poll and listeners, and the filesystem watcher.
C20_StopDisposesEverything ==
    ~recording.isRecording
    => /\ \A l \in DOMAIN listeners : ~listeners[l]
       /\ panicButtonTimeoutId = Null

\* ---------------------------------------------------------- CSV recorder
engineAndView ==
    <<vars, hostVars, inFlight, consent, viewVars, termVars, watchVars, starting>>
CsvChangeLists == {<<InsertX>>, <<InsertX, DeleteFirst>>}

\* recording.ts:146-240 startRecording of the CSV recorder, for the first session
\* of the process (a later session writes another file); hasEditor: an editor is
\* active, its text is the initial tab row
csvStartRecording(hasEditor, hasExportPath) ==
    /\ csv.startDateTime = Null
    /\ IF csv.isRecording \/ ~hasExportPath
       THEN UNCHANGED csv
       ELSE LET c0 == [csv EXCEPT !.startDateTime = 0, !.isRecording = TRUE,
                                  !.sequence = 1, !.withEditor = hasEditor]
                heading == buildCsvRow(c0.sequence, 0, 0, << >>, "heading")
                tab == buildCsvRow(c0.sequence, 0, 0, <<"a", "b">>, "tab")
                c1 == addToFileQueue(c0, heading)
                c2 == IF hasEditor THEN addToFileQueue(c1, tab) ELSE c1
            IN  csv' = appendToFile(c2, hasExportPath)
    /\ UNCHANGED engineAndView

\* recording.ts:108-131 onChangeSubscription
csvOnDidChangeTextDocument(changes, isActiveDocument, isExported, hasExportPath) ==
    /\ IF ~csv.isRecording \/ isExported \/ ~isActiveDocument
       THEN UNCHANGED csv
       ELSE /\ csv.sequence + Len(changes) <= MaxCsvSequence
            /\ csv' = QueueContentChanges(csv, changes, hasExportPath)
    /\ UNCHANGED engineAndView

\* variant: a rejected appendFile ends the loop where it is
csvAppendSettled_FailureEndsLoop(row, ok) ==
    /\ row \in csv.writes
    /\ LET c1 == [csv EXCEPT !.writes = @ \ {row},
                             !.file = IF ok THEN Append(@, row) ELSE @,
                             !.writeFailed = @ \/ ~ok]
       IN  csv' = IF ~ok THEN c1
                  ELSE IF Len(c1.fileQueue) > 0
                  THEN [c1 EXCEPT !.writes = @ \cup {Head(c1.fileQueue)},
                                  !.fileQueue = Tail(@)]
                  ELSE [c1 EXCEPT !.isAppending = FALSE]
    /\ UNCHANGED engineAndView

\* recording.ts:346-366 an appendFile settles and its loop goes on: the row is in
\* the file (or dropped and logged when the call was rejected), then the next
\* queued row is shifted and written, or the loop ends
csvAppendSettled(row, ok) ==
    /\ row \in csv.writes
    /\ LET c1 == [csv EXCEPT !.writes = @ \ {row},
                             !.file = IF ok THEN Append(@, row) ELSE @,
                             !.writeFailed = @ \/ ~ok]
       IN  csv' = IF Len(c1.fileQueue) > 0
                  THEN [c1 EXCEPT !.writes = @ \cup {Head(c1.fileQueue)},
                                  !.fileQueue = Tail(@)]
                  ELSE [c1 EXCEPT !.isAppending = FALSE]
    /\ UNCHANGED engineAndView

\* recording.ts:286-315 stopRecording of the CSV recorder up to its export
csvStopRecording ==
    /\ csv' = csvStopForced(csv)
    /\ UNCHANGED engineAndView

NextCsv ==
    \/ \E hasEditor \in BOOLEAN, hasExportPath \in BOOLEAN :
           csvStartRecording(hasEditor, hasExportPath)
    \/ \E changes \in CsvChangeLists, isActiveDocument \in BOOLEAN,
          isExported \in BOOLEAN, hasExportPath \in BOOLEAN :
           csvOnDidChangeTextDocument(changes, isActiveDocument, isExported,
                                      hasExportPath)
    \/ \E row \in csv.writes, ok \in BOOLEAN : csvAppendSettled(row, ok)
    \/ csvStopRecording

SpecCsv == Init /\ [][NextCsv]_allVars

\* the rows of seq without the heading
DataRows(seq) == SelectSeq(seq, LAMBDA r : r.type # "heading")

C35_AppendFailureDropsOneItem ==
    /\ [](csv.isAppending <=> csv.writes # {})
    /\ [][\A row \in csv.writes :
              csvAppendSettled(row, FALSE) =>
                  /\ csv'.file = csv.file
                  /\ csv'.writeFailed
                  /\ csv'.isRecording = csv.isRecording
                  /\ IF csv.fileQueue # << >>
                     THEN /\ csv'.writes = {Head(csv.fileQueue)}
                          /\ csv'.fileQueue = Tail(csv.fileQueue)
                          /\ csv'.isAppending
                     ELSE /\ csv'.writes = {}
                          /\ ~csv'.isAppending]_allVars
    /\ [][\A changes \in CsvChangeLists :
              (/\ csv.isRecording /\ ~csv.isAppending
               /\ csvOnDidChangeTextDocument(changes, TRUE, FALSE, FALSE))
              => /\ ~csv'.isRecording
                 /\ ~csv'.isAppending
                 /\ csv'.writes = {}]_allVars

\* C35 witness: the write of row 2 was rejected, row 3 was appended after it,
\* the session is recording and the loop has ended.
C35_Witness ==
    /\ csv.writeFailed
    /\ csv.isRecording
    /\ ~csv.isAppending
    /\ Len(csv.file) = 3
    /\ csv.file[2].sequence = 1
    /\ csv.file[3].sequence = 3

\* ------------------------------------------------------ viewport sampler
\* the observation captured last, as the log holds it
ObservationIndexes(events) == {i \in 1..Len(events) : events[i].type = "observation"}
HasObservation(events) == ObservationIndexes(events) # {}
LastObservation(events) ==
    events[CHOOSE i \in ObservationIndexes(events) :
               \A j \in ObservationIndexes(events) : j <= i].observation

\* C21: a tick of the sampler with the dirty flag unset logs nothing; a tick with
\* the flag set logs the observation it captures exactly when that observation
\* differs from the observation captured just before it, and never logs an
\* observation equal to it.
C21_SamplerSuppressesDuplicates ==
    [][\A shown \in Observations :
          (pollViewport(shown) /\ recording.isRecording /\ activeEditor # NoEditor
           /\ HasObservation(Events))
          => /\ ~viewportChanged => recording' = recording
             /\ (viewportChanged /\ captureObservation(shown) = LastObservation(Events))
                    => recording' = recording
             /\ (viewportChanged /\ captureObservation(shown) # LastObservation(Events))
                    => /\ Len(recording'.events) = Len(Events) + 2
                       /\ recording'.events[Len(Events) + 1].type = "observation"
                       /\ recording'.events[Len(Events) + 1].observation
                              = captureObservation(shown)]_allVars

\* a handler of a user action has logged its action in this step
UserActionLogged ==
    /\ lastOp'.op \in UserHandlers
    /\ lastOp'.before = Len(Events)
    /\ Len(recording'.events) > Len(Events)

notTerminals ==
    <<vars, hostVars, inFlight, consent, viewVars, csv, watchVars, starting>>

\* host: a terminal is created; the tracker has no listener for this
openTerminal(terminal, name) ==
    /\ terminal \notin terminals.open \cup terminals.closed
    /\ terminals' = [terminals EXCEPT !.open = @ \cup {terminal},
                                      !.name[terminal] = name]
    /\ UNCHANGED <<tracker, notTerminals>>

\* host: the user renames a terminal
renameTerminal(terminal, name) ==
    /\ terminal \in terminals.open
    /\ terminals.name[terminal] # name
    /\ terminals' = [terminals EXCEPT !.name[terminal] = name]
    /\ UNCHANGED <<tracker, notTerminals>>

\* terminalCapture.ts:148-169 the onDidChangeActiveTerminal listener; its onFocus
\* callback is handleTerminalFocus
onDidChangeActiveTerminal(terminal) ==
    /\ terminal \in terminals.open \cup {NoTerminal}
    /\ terminal # terminals.active
    /\ terminals' = [terminals EXCEPT !.active = terminal]
    /\ tracker' =
          IF ~tracker.disposables THEN tracker
          ELSE IF terminal = NoTerminal
          THEN [tracker EXCEPT !.activeTerminalId = NoTerminalId]
          ELSE LET g == getTerminalId(tracker, terminal, terminals.name[terminal])
               IN  ObserveTerminalViewport(
                       [g.tr EXCEPT
                           !.terminalNames =
                               MapSet(@, g.id, terminals.name[terminal]),
                           !.activeTerminalId = g.id])
    /\ UNCHANGED notTerminals

\* variant: the output callback is made before the chunk is appended
NotifyOutput_BeforeAppend(tr, d, data) ==
    [appendTerminalContent(tr, d.id, data) EXCEPT
        !.calls = IF tr.callbacks
                  THEN Append(@, [callback |-> "onOutput", id |-> d.id,
                                  name |-> d.name, drain |-> d.key, data |-> data,
                                  focused |-> tr.activeTerminalId = d.id,
                                  viewport |-> extractViewport(tr, d.id)])
                  ELSE @]

\* terminalCapture.ts:189-193 one turn of the for-await loop
NotifyOutput(tr, d, data) ==
    LET tr1 == appendTerminalContent(tr, d.id, data)
    IN  [tr1 EXCEPT
            !.calls = IF tr.callbacks
                      THEN Append(@, [callback |-> "onOutput", id |-> d.id,
                                      name |-> d.name, drain |-> d.key,
                                      data |-> data,
                                      focused |-> tr.activeTerminalId = d.id,
                                      viewport |-> extractViewport(tr1, d.id)])
                      ELSE @]

\* terminalCapture.ts:172-187 the onDidStartTerminalShellExecution listener up to
\* its first await; onCommand is handleTerminalCommand
onDidStartTerminalShellExecution(terminal) ==
    /\ terminal \in terminals.open
    /\ tracker.disposables
    /\ LET g == getTerminalId(tracker, terminal, terminals.name[terminal])
           name == terminals.name[terminal]
           tr1 == appendTerminalContent(g.tr, g.id, CommandLine)
           key == Len(tracker.calls) + 1
       IN  tracker' = [tr1 EXCEPT
               !.calls = IF tr1.callbacks
                         THEN Append(@, [callback |-> "onCommand", id |-> g.id,
                                         name |-> name, drain |-> key,
                                         data |-> CommandLine,
                                         focused |-> tr1.activeTerminalId = g.id,
                                         viewport |-> extractViewport(tr1, g.id)])
                         ELSE @,
               !.outputChanging = TRUE,
               !.drains = @ \cup {[key |-> key, terminal |-> terminal,
                                   id |-> g.id, name |-> name,
                                   stopped |-> FALSE]}]
    /\ UNCHANGED <<terminals, notTerminals>>

\* terminalCapture.ts:188-194 the stream of a running command yields a chunk;
\* onOutput is handleTerminalOutput
drainChunk(d, data) ==
    /\ d \in tracker.drains
    /\ tracker' = NotifyOutput(tracker, d, data)
    /\ UNCHANGED <<terminals, notTerminals>>

\* terminalCapture.ts:196 the stream of a running command ends
drainEnd(d) ==
    /\ d \in tracker.drains
    /\ tracker' = [tracker EXCEPT !.outputChanging = FALSE, !.drains = @ \ {d}]
    /\ UNCHANGED <<terminals, notTerminals>>

\* terminalCapture.ts:200-209
CloseTerminal(tr, terminal) ==
    LET id == tr.terminalIdMap[terminal]
    IN  IF id = NoTerminalId THEN tr
        ELSE [tr EXCEPT
                !.terminalContent = MapDelete(@, id),
                !.terminalNames = MapDelete(@, id),
                !.appended = MapDelete(@, id),
                !.activeTerminalId = IF @ = id THEN NoTerminalId ELSE @]

\* host: a terminal is closed, and the onDidCloseTerminal listener runs
onDidCloseTerminal(terminal) ==
    /\ terminal \in terminals.open
    /\ terminals' = [terminals EXCEPT
           !.open = @ \ {terminal}, !.closed = @ \cup {terminal},
           !.active = IF @ = terminal THEN NoTerminal ELSE @]
    /\ tracker' = IF tracker.disposables THEN CloseTerminal(tracker, terminal)
                  ELSE tracker
    /\ UNCHANGED notTerminals

\* terminalCapture.ts:113-129, a tick of the poll interval
pollTerminalViewport ==
    /\ tracker.pollInterval
    /\ tracker' = IF tracker.activeTerminalId = NoTerminalId
                     \/ ~tracker.outputChanging
                     \/ ~tracker.terminalViewportChanged
                  THEN tracker
                  ELSE ObserveTerminalViewport(
                           [tracker EXCEPT !.terminalViewportChanged = FALSE])
    /\ UNCHANGED <<terminals, notTerminals>>

\* terminalCapture.ts:226-250
cleanupTerminalCapture ==
    /\ tracker' = [tracker EXCEPT
           !.disposables = FALSE, !.pollInterval = FALSE,
           !.terminalContent = EmptyMap, !.terminalNames = EmptyMap,
           !.appended = EmptyMap,
           !.activeTerminalId = NoTerminalId,
           !.outputChanging = FALSE, !.terminalViewportChanged = FALSE,
           !.terminalIdCounter = 0]
    /\ UNCHANGED <<terminals, notTerminals>>

\* the background tasks in records, marked as begun before a stop of the session
MarkStopped(records) == {[r EXCEPT !.stopped = TRUE] : r \in records}

\* the session is stopped; stopRecording touches neither the tracker nor the
\* watcher: the running drains and file processings are only marked
stopSession ==
    /\ stopRecording(TRUE, TRUE)
    /\ tracker' = IF recording.isRecording
                  THEN [tracker EXCEPT !.drains = MarkStopped(@)] ELSE tracker
    /\ watcher' = IF recording.isRecording
                  THEN [watcher EXCEPT !.tasks = MarkStopped(@)] ELSE watcher
    /\ UNCHANGED <<consent, viewVars, csv, terminals, disk, starting>>

CallRoom(limit) == Len(tracker.calls) < limit

\* opens, renames, focus changes, commands, closes, tracker cleanup and session
\* stop/start
NextTerminalIds ==
    \/ \E terminal \in TerminalObjects, name \in TerminalNames :
           openTerminal(terminal, name)
    \/ \E terminal \in TerminalObjects, name \in TerminalNames :
           renameTerminal(terminal, name)
    \/ \E terminal \in TerminalObjects \cup {NoTerminal} :
           onDidChangeActiveTerminal(terminal)
    \/ \E terminal \in TerminalObjects :
           CallRoom(MaxCallsIds) /\ onDidStartTerminalShellExecution(terminal)
    \/ \E d \in tracker.drains : drainEnd(d)
    \/ \E terminal \in TerminalObjects : onDidCloseTerminal(terminal)
    \/ cleanupTerminalCapture
    \/ startSession(TRUE, Shown0)
    \/ stopSession

SpecTerminalIds == Init /\ [][NextTerminalIds]_allVars

\* one terminal, its commands run one after the other, and their output
NextTerminalBuffer ==
    \/ openTerminal("T1", "bash")
    \/ onDidChangeActiveTerminal("T1")
    \/ /\ CallRoom(MaxAppends) /\ tracker.drains = {}    \* one command at a time
       /\ onDidStartTerminalShellExecution("T1")
    \/ \E d \in tracker.drains, data \in Chunks :
           CallRoom(MaxAppends) /\ drainChunk(d, data)
    \/ \E d \in tracker.drains : drainEnd(d)
    \/ pollTerminalViewport
    \/ startSession(TRUE, Shown0)

SpecTerminalBuffer == Init /\ [][NextTerminalBuffer]_allVars

\* commands whose output is read while terminals are focused and closed
NextTerminalDrain ==
    \/ \E terminal \in TerminalObjects : openTerminal(terminal, "bash")
    \/ \E terminal \in TerminalObjects \cup {NoTerminal} :
           onDidChangeActiveTerminal(terminal)
    \/ \E terminal \in TerminalObjects :
           CallRoom(MaxCalls) /\ onDidStartTerminalShellExecution(terminal)
    \/ \E d \in tracker.drains, data \in Chunks :
           CallRoom(MaxCalls) /\ drainChunk(d, data)
    \/ \E d \in tracker.drains : drainEnd(d)
    \/ \E terminal \in TerminalObjects : onDidCloseTerminal(terminal)
    \/ startSession(TRUE, Shown0)

SpecTerminalDrain == Init /\ [][NextTerminalDrain]_allVars

\* one terminal with commands that run at the same time, and the poll interval
\* that keeps ticking
NextTerminalPoll ==
    \/ openTerminal("T1", "bash")
    \/ onDidChangeActiveTerminal("T1")
    \/ CallRoom(MaxCallsPoll) /\ onDidStartTerminalShellExecution("T1")
    \/ \E d \in tracker.drains, data \in Chunks :
           CallRoom(MaxCallsPoll) /\ drainChunk(d, data)
    \/ \E d \in tracker.drains : drainEnd(d)
    \/ pollTerminalViewport
    \/ startSession(TRUE, Shown0)

SpecTerminalPoll ==
    /\ Init /\ [][NextTerminalPoll]_allVars
    /\ WF_allVars(pollTerminalViewport)

\* C23: a terminal that has an id keeps it in every step (renames, focus
\* changes, commands, closes, session stop/start, tracker cleanup and
\* re-initialisation), and no two terminals have the same id.
C23_TerminalIdsStableAndDistinct ==
    /\ [](\A t1, t2 \in TerminalObjects :
              (t1 # t2 /\ tracker.terminalIdMap[t1] # NoTerminalId)
                  => tracker.terminalIdMap[t1] # tracker.terminalIdMap[t2])
    /\ [][\A t \in TerminalObjects :
              tracker.terminalIdMap[t] # NoTerminalId
                  => tracker'.terminalIdMap[t] = tracker.terminalIdMap[t]]_allVars

\* C24: every terminal's buffer has at most 20 lines and is the last 20 lines of
\* everything appended to it since it was created or reset, and the viewport
\* extracted from it has at most 20 lines, the same trailing lines (none for an
\* empty buffer).
C24_BufferIsTrailingLines ==
    \A id \in DOMAIN tracker.terminalContent :
        /\ Len(tracker.terminalContent[id]) <= TERMINAL_VIEWPORT_LINES
        /\ tracker.terminalContent[id]
               = SliceLast(tracker.appended[id], TERMINAL_VIEWPORT_LINES)
        /\ Len(extractViewport(tracker, id)) <= TERMINAL_VIEWPORT_LINES
        /\ extractViewport(tracker, id)
               = IF tracker.appended[id] = EmptyString THEN << >>
                 ELSE SliceLast(tracker.appended[id], TERMINAL_VIEWPORT_LINES)

\* C24 witness: more than 20 lines were appended to a terminal, and its buffer
\* holds 20 lines, the first of them not the first line appended.
C24_Witness ==
    \E id \in DOMAIN tracker.terminalContent :
        /\ Len(tracker.appended[id]) > TERMINAL_VIEWPORT_LINES
        /\ Len(tracker.terminalContent[id]) = TERMINAL_VIEWPORT_LINES
        /\ tracker.terminalContent[id][1] # tracker.appended[id][1]
        /\ Len(extractViewport(tracker, id)) = TERMINAL_VIEWPORT_LINES

\* the text lines ends with the text content
EndsWith(lines, content) ==
    LET n == Len(content)
        m == Len(lines)
    IN  /\ m >= n
        /\ \A i \in 2..n : lines[m - n + i] = content[i]
        /\ LET first == lines[m - n + 1]
               k == Len(content[1])
           IN  /\ Len(first) >= k
               /\ SubSeq(first, Len(first) - k + 1, Len(first)) = content[1]

\* C29: the callbacks of a command begin with one onCommand, made when the
\* terminal's buffer already ends with "$ <command>"; every onOutput follows the
\* onCommand of its command, is made when the buffer already ends with its chunk,
\* and each chunk read from the stream adds exactly one onOutput, in the order
\* read.
C29_CommandThenOutputInOrder ==
    /\ [](\A i \in 1..Len(tracker.calls) :
              LET call == tracker.calls[i]
              IN  /\ EndsWith(call.viewport, call.data)
                  /\ call.callback = "onCommand" => (call.drain = i
                                                     /\ call.data = CommandLine)
                  /\ call.callback = "onOutput" =>
                         /\ call.drain < i
                         /\ tracker.calls[call.drain].callback = "onCommand"
                         /\ tracker.calls[call.drain].id = call.id)
    /\ [][\A d \in tracker.drains, data \in Chunks :
              drainChunk(d, data) =>
                  /\ Len(tracker'.calls) = Len(tracker.calls) + 1
                  /\ SubSeq(tracker'.calls, 1, Len(tracker.calls)) = tracker.calls
                  /\ tracker'.calls[Len(tracker'.calls)].callback = "onOutput"
                  /\ tracker'.calls[Len(tracker'.calls)].data = data
                  /\ tracker'.calls[Len(tracker'.calls)].drain = d.key
                  /\ EndsWith(tracker'.terminalContent[d.id], data)]_allVars
    /\ [][\A terminal \in TerminalObjects :
              onDidStartTerminalShellExecution(terminal) =>
                  /\ Len(tracker'.calls) = Len(tracker.calls) + 1
                  /\ SubSeq(tracker'.calls, 1, Len(tracker.calls)) = tracker.calls
                  /\ tracker'.calls[Len(tracker'.calls)].callback = "onCommand"
                  /\ EndsWith(tracker'.terminalContent[
                                  tracker'.terminalIdMap[terminal]], CommandLine)]_allVars

\* C29 witness: a command was started and two chunks of its output were read,
\* the callbacks being onCommand, onOutput, onOutput.
C29_Witness ==
    /\ Len(tracker.calls) = 3
    /\ tracker.calls[1].callback = "onCommand"
    /\ tracker.calls[2].callback = "onOutput"
    /\ tracker.calls[2].drain = 1
    /\ tracker.calls[2].data = ChunkPartial
    /\ tracker.calls[3].callback = "onOutput"
    /\ tracker.calls[3].drain = 1
    /\ tracker.calls[3].data = ChunkLines

\* C30: for a terminal whose close the tracker has processed there is no buffer
\* and no name, and it is not the active terminal, also when chunks of a command
\* still running for it arrive after the close.
C30_ClosedTerminalForgotten ==
    \A terminal \in terminals.closed :
        LET id == tracker.terminalIdMap[terminal]
        IN  id # NoTerminalId =>
                /\ id \notin DOMAIN tracker.terminalContent
                /\ id \notin DOMAIN tracker.terminalNames
                /\ tracker.activeTerminalId # id

\* the i-th callback is the onOutput of a chunk appended to the buffer of the
\* terminal that had the focus, in a session
OutputOnFocused(i) ==
    /\ recording.isRecording
    /\ i <= Len(tracker.calls)
    /\ tracker.calls[i].callback = "onOutput"
    /\ tracker.calls[i].focused

\* a terminal viewport was handed over for that terminal after the i-th callback
ObservedAfter(i) ==
    \E j \in (i + 1)..Len(tracker.calls) :
        /\ tracker.calls[j].callback = "onViewportObservation"
        /\ tracker.calls[j].id = tracker.calls[i].id

\* C31: whenever a chunk of output is appended to the buffer of the focused
\* terminal during a session, the terminal poll eventually hands over a
\* terminal viewport taken after the append, also while several commands are
\* draining and one of them ends.
C31_PollEventuallyObservesOutput ==
    \A i \in 1..MaxCallsPoll : OutputOnFocused(i) ~> ObservedAfter(i)

\* ------------------------------------------------------ filesystem watcher
notWatcher ==
    <<vars, hostVars, inFlight, consent, viewVars, csv, termVars, starting>>

Report(filePath, changeType, oldContent, newContent) ==
    [filePath |-> filePath, changeType |-> changeType,
     oldContent |-> oldContent, newContent |-> newContent]

\* filesystemWatcher.ts:116-133 processFileChange up to its first await
StartProcessFileChange(w, filePath, changeType) ==
    LET key == w.notified + 1
        task(at) == [kind |-> "change", at |-> at, key |-> key,
                     filePath |-> filePath, changeType |-> changeType,
                     oldContent |-> NullContent, newContent |-> NullContent,
                     stopped |-> FALSE]
    IN  IF filePath \notin DOMAIN w.fileCache /\ changeType # "delete"
        THEN [w EXCEPT !.tasks = @ \cup {task("track")}]
        ELSE IF changeType = "delete"
        THEN [w EXCEPT
                !.fileCache = MapDelete(@, filePath),
                !.reports = Append(@, Report(filePath, changeType,
                                             CacheGet(w, filePath), NullContent)),
                !.deleted = @ \cup {filePath}]
        ELSE [w EXCEPT !.tasks = @ \cup {task("stat")}]

\* filesystemWatcher.ts:163-171 handleFileEvent, called by the watcher's
\* onDidCreate, onDidChange and onDidDelete after the file system has changed:
\* text is the file's new text (NullContent: the file is gone)
handleFileEvent(filePath, text) ==
    /\ watcher.fileWatcher
    /\ filePath \in AllPaths
    /\ LET changeType == IF text = NullContent THEN "delete"
                         ELSE IF disk[filePath] = NullContent THEN "create"
                         ELSE "change"
           w1 == [watcher EXCEPT
                     !.notified = @ + 1,
                     !.deleted = IF changeType = "delete" THEN @ ELSE @ \ {filePath}]
       IN  /\ ~(text = NullContent /\ disk[filePath] = NullContent)
           /\ disk' = [disk EXCEPT ![filePath] = text]
           /\ watcher' = IF isExcluded(watcher, filePath) THEN w1
                         ELSE StartProcessFileChange(w1, filePath, changeType)
    /\ UNCHANGED notWatcher

\* host: a file is written before the watcher is created (filesystemWatcher.ts:221)
writeFileUnwatched(filePath, text) ==
    /\ ~watcher.fileWatcher
    /\ disk[filePath] # text
    /\ disk' = [disk EXCEPT ![filePath] = text]
    /\ UNCHANGED <<watcher, notWatcher>>

\* filesystemWatcher.ts:121-126 shouldTrackFile has answered; found: findFiles
\* matched the path
taskTracked(task, found) ==
    /\ task \in watcher.tasks /\ task.kind = "change" /\ task.at = "track"
    /\ LET shouldTrack == task.filePath \in DOMAIN watcher.fileCache \/ found
       IN  watcher' = [watcher EXCEPT
               !.tasks = (@ \ {task})
                         \cup (IF shouldTrack THEN {[task EXCEPT !.at = "stat"]}
                               ELSE {})]
    /\ UNCHANGED <<disk, notWatcher>>

\* filesystemWatcher.ts:136-146 isFileSizeWithinLimit has answered
taskSized(task) ==
    /\ task \in watcher.tasks /\ task.kind = "change" /\ task.at = "stat"
    /\ watcher' =
          IF ~isFileSizeWithinLimit(disk[task.filePath])
          THEN [watcher EXCEPT !.tasks = @ \ {task},
                               !.fileCache = MapDelete(@, task.filePath)]
          ELSE [watcher EXCEPT
                   !.tasks = (@ \ {task})
                             \cup {[task EXCEPT
                                      !.at = "read",
                                      !.oldContent = CacheGet(watcher, task.filePath)]}]
    /\ UNCHANGED <<disk, notWatcher>>

\* filesystemWatcher.ts:146-157 readFileContent has answered
FinishProcessFileChange(w, task, newContent) ==
    IF newContent = NullContent THEN w
    ELSE IF task.oldContent = newContent /\ task.changeType # "create" THEN w
    ELSE [w EXCEPT
             !.fileCache = MapSet(@, task.filePath, newContent),
             !.reports = Append(@, Report(task.filePath, task.changeType,
                                          task.oldContent, newContent))]

\* the file system has carried out a task's readFile: the text is the file's
\* text now, and the task goes on when the event loop runs its continuation
readDone(task) ==
    /\ task \in watcher.tasks /\ task.at = "read"
    /\ watcher' = [watcher EXCEPT
           !.tasks = (@ \ {task})
                     \cup {[task EXCEPT !.at = "resume",
                                        !.newContent = disk[task.filePath]]},
           !.lastRead = IF task.stopped THEN @
                        ELSE MapSet(@, task.filePath, disk[task.filePath])]
    /\ UNCHANGED <<disk, notWatcher>>

taskResumed(task) ==
    /\ task \in watcher.tasks /\ task.kind = "change" /\ task.at = "resume"
    /\ watcher' = FinishProcessFileChange([watcher EXCEPT !.tasks = @ \ {task}],
                                          task, task.newContent)
    /\ UNCHANGED <<disk, notWatcher>>

\* filesystemWatcher.ts:183-190 the background scan's isFileSizeWithinLimit has
\* answered
scanSized(task) ==
    /\ task \in watcher.tasks /\ task.kind = "scan" /\ task.at = "stat"
    /\ watcher' = [watcher EXCEPT
           !.tasks = (@ \ {task})
                     \cup (IF isFileSizeWithinLimit(disk[task.filePath])
                           THEN {[task EXCEPT !.at = "read"]} ELSE {})]
    /\ UNCHANGED <<disk, notWatcher>>

\* filesystemWatcher.ts:190-194 the background scan goes on after its readFile
scanResumed(task) ==
    /\ task \in watcher.tasks /\ task.kind = "scan" /\ task.at = "resume"
    /\ watcher' = [watcher EXCEPT
           !.tasks = @ \ {task},
           !.fileCache = IF task.newContent = NullContent THEN @
                         ELSE MapSet(@, task.filePath, task.newContent)]
    /\ UNCHANGED <<disk, notWatcher>>

NotificationRoom == watcher.notified < MaxNotifications

NextWatcher ==
    \/ \E filePath \in Paths, text \in FileTexts : writeFileUnwatched(filePath, text)
    \/ \E filePath \in ExcludedPaths, text \in ExcludedTexts :
           writeFileUnwatched(filePath, text)
    \/ \E filePath \in Paths, text \in FileTexts \cup {NullContent} :
           NotificationRoom /\ handleFileEvent(filePath, text)
    \/ \E filePath \in ExcludedPaths, text \in ExcludedTexts \cup {NullContent} :
           NotificationRoom /\ handleFileEvent(filePath, text)
    \/ \E task \in watcher.tasks, found \in BOOLEAN : taskTracked(task, found)
    \/ \E task \in watcher.tasks : taskSized(task)
    \/ \E task \in watcher.tasks : readDone(task)
    \/ \E task \in watcher.tasks : taskResumed(task)
    \/ \E task \in watcher.tasks : scanSized(task)
    \/ \E task \in watcher.tasks : scanResumed(task)
    \/ startSession(TRUE, Shown0)

SpecWatcher == Init /\ [][NextWatcher]_allVars

\* the same steps with fewer notifications
NextExcluded ==
    \/ \E filePath \in Paths, text \in FileTexts : writeFileUnwatched(filePath, text)
    \/ \E filePath \in ExcludedPaths, text \in ExcludedTexts :
           writeFileUnwatched(filePath, text)
    \/ \E filePath \in Paths, text \in FileTexts \cup {NullContent} :
           /\ watcher.notified < MaxNotificationsExcluded
           /\ handleFileEvent(filePath, text)
    \/ \E filePath \in ExcludedPaths, text \in ExcludedTexts \cup {NullContent} :
           /\ watcher.notified < MaxNotificationsExcluded
           /\ handleFileEvent(filePath, text)
    \/ \E task \in watcher.tasks, found \in BOOLEAN : taskTracked(task, found)
    \/ \E task \in watcher.tasks : taskSized(task)
    \/ \E task \in watcher.tasks : readDone(task)
    \/ \E task \in watcher.tasks : taskResumed(task)
    \/ \E task \in watcher.tasks : scanSized(task)
    \/ \E task \in watcher.tasks : scanResumed(task)
    \/ startSession(TRUE, Shown0)

SpecExcluded == Init /\ [][NextExcluded]_allVars

\* the warm-up of the cache next to one notification, over sessions that are
\* stopped and started
NextWarmup ==
    \/ \E text \in FileTexts : writeFileUnwatched("a.txt", text)
    \/ \E text \in FileTexts \cup {NullContent} :
           /\ watcher.notified < MaxNotificationsWarmup
           /\ handleFileEvent("a.txt", text)
    \/ \E task \in watcher.tasks, found \in BOOLEAN : taskTracked(task, found)
    \/ \E task \in watcher.tasks : taskSized(task)
    \/ \E task \in watcher.tasks : readDone(task)
    \/ \E task \in watcher.tasks : taskResumed(task)
    \/ \E task \in watcher.tasks : scanSized(task)
    \/ \E task \in watcher.tasks : scanResumed(task)
    \/ startSession(TRUE, Shown0)
    \/ stopSession

SpecWarmup == Init /\ [][NextWarmup]_allVars

\* ------------------------------------------- startRecording and its awaits
\* recording.ts:1152-1183 from the initialisation of the recording state to the
\* await of initializeFilesystemWatcher; isRecording is not written yet
startRecordingInitialises ==
    /\ recording' = [recording EXCEPT !.startDateTime = now, !.endDateTime = Null,
                                      !.sequence = 0, !.events = << >>]
    /\ previousFile' = NoFile
    /\ panicButtonPressCount' = 0
    /\ lastObservationHash' = NullHash
    /\ viewportChanged' = FALSE
    /\ editsSinceReport' = [f \in Files |-> << >>]
    /\ lastPress' = NoPress
    /\ listeners' = [listeners EXCEPT !.pollInterval = TRUE,
                                      !.visibleRangesDisposable = TRUE,
                                      !.terminalPollInterval = TRUE,
                                      !.terminalDisposables = TRUE,
                                      !.fileWatcher = TRUE]
    /\ tracker' = initializeTerminalCapture(resetTerminalState(tracker), terminals)
    /\ watcher' = initializeFilesystemWatcher(resetFilesystemState(watcher), disk)
    /\ UNCHANGED <<now, panicButtonTimeoutId, lastUserInteractionTime,
                   lastUserEditedFile, gitVars, activeEditor, lastOp, inFlight,
                   consent, viewVars, csv, terminals, disk>>

\* recording.ts:1133-1150 a call of startRecording up to its first await;
\* addsToGitignore: export.addToGitignore is set, so that it awaits addToGitignore
startRecordingCalled(hasExportPath, addsToGitignore) ==
    IF recording.isRecording \/ ~hasExportPath
    THEN UNCHANGED allVars
    ELSE IF addsToGitignore
    THEN /\ starting' = [starting EXCEPT !.gitignore = @ + 1]
         /\ UNCHANGED <<vars, hostVars, inFlight, consent, viewVars, csv, termVars,
                        watchVars>>
    ELSE /\ startRecordingInitialises
         /\ starting' = [starting EXCEPT !.watcher = @ + 1]

\* recording.ts:1150-1183 a call goes on after addToGitignore
gitignoreAdded ==
    /\ starting.gitignore > 0
    /\ startRecordingInitialises
    /\ starting' = [starting EXCEPT !.gitignore = @ - 1, !.watcher = @ + 1]

\* recording.ts:1183-1226 a call goes on after initializeFilesystemWatcher
watcherInitialised(shown) ==
    /\ starting.watcher > 0
    /\ recording' = logObservation([recording EXCEPT !.isRecording = TRUE], now,
                                   captureObservation(shown))
    /\ previousFile' = IF activeEditor = NoEditor THEN NoFile ELSE activeEditor
    /\ listeners' = [listeners EXCEPT !.subscriptions = TRUE, !.intervalId = TRUE,
                                      !.uploadIntervalId = TRUE]
    /\ starting' = [starting EXCEPT !.watcher = @ - 1,
                                    !.subscriptions = @ + 1,
                                    !.intervals = @ + 1,
                                    !.uploadIntervals = @ + 1]
    /\ lastOp' = [op |-> "startRecording", before |-> 0]
    /\ UNCHANGED <<now, panicVars, lastUserInteractionTime, lastUserEditedFile,
                   lastObservationHash, viewportChanged, gitVars, activeEditor,
                   editsSinceReport, lastPress, inFlight, consent, viewVars, csv,
                   termVars, watchVars>>

RECURSIVE RunActiveEditorHandlers(_, _, _, _)
\* recording.ts:1010-1030 run by each of the n subscriptions to
\* onDidChangeActiveTextEditor, one after the other
RunActiveEditorHandlers(st, n, editor, shown) ==
    IF n = 0 THEN st
    ELSE LET logged == logObservationAndAction(
                           [rec |-> st.rec, hash |-> st.hash], now,
                           [kind |-> "tab_switch", source |-> "user",
                            file |-> editor, previousFile |-> st.previousFile],
                           shown)
         IN  RunActiveEditorHandlers(
                 [rec |-> logged.rec, hash |-> logged.hash, previousFile |-> editor],
                 n - 1, editor, shown)

\* host: the active editor changes, and every subscription that startRecording
\* pushed at recording.ts:1192-1194 is notified
onDidChangeActiveTextEditor(editor, shown) ==
    /\ activeEditor' = editor
    /\ IF ~recording.isRecording
          \/ editor = NoEditor
          \/ isCurrentFileExported(editor)
          \/ starting.subscriptions = 0
       THEN UNCHANGED <<engineVars, lastOp>>
       ELSE /\ LET st == RunActiveEditorHandlers(
                             [rec |-> recording, hash |-> lastObservationHash,
                              previousFile |-> previousFile],
                             starting.subscriptions, editor, shown)
               IN  /\ recording' = st.rec
                   /\ lastObservationHash' = st.hash
            /\ previousFile' = editor
            /\ lastOp' = Called("handleActiveEditorChange")
            /\ UNCHANGED <<lastUserInteractionTime, lastUserEditedFile>>
    /\ UNCHANGED <<now, panicVars, viewportChanged, gitVars, editsSinceReport>>
    /\ UNCHANGED <<hostVars, inFlight, outerVars>>

\* calls of startRecording that overlap, and changes of the active editor
NextStart ==
    \/ \E addsToGitignore \in BOOLEAN :
           /\ starting.gitignore + starting.watcher < MaxStarts
           /\ startRecordingCalled(TRUE, addsToGitignore)
    \/ gitignoreAdded
    \/ watcherInitialised(Shown0)
    \/ \E editor \in Files :
           Room(MaxEventsStart) /\ onDidChangeActiveTextEditor(editor, Shown0)

SpecStart == Init /\ [][NextStart]_allVars

\* the number of actions that a step appends to the log
ActionsAppended ==
    Cardinality({i \in (Len(recording.events) + 1)..Len(recording'.events) :
                    recording'.events[i].type = "action"})

\* C37: with calls of startRecording that overlap at its awaits, there is at
\* most one set of editor subscriptions and one upload timer, and a change of
\* the active editor appends at most one action to the log.
C37_StartInitialisesOnce ==
    /\ [](starting.subscriptions <= 1 /\ starting.uploadIntervals <= 1)
    /\ [][\A editor \in Files :
              onDidChangeActiveTextEditor(editor, Shown0)
                  => ActionsAppended <= 1]_allVars

\* ------------------------------ background results and the session's log
\* terminalCapture.ts:53 the id string of the n-th terminal
TerminalIdString(id) == IF id = 1 THEN "terminal-1" ELSE "terminal-2"

\* terminalCapture.ts:188-194 with recording.ts:1065-1079: a chunk is read from
\* the stream of a running command and handed to handleTerminalOutput
drainChunkDelivered(d, data) ==
    /\ d \in tracker.drains
    /\ tracker' = NotifyOutput(tracker, d, data)
    /\ IF tracker.callbacks THEN handleTerminalOutput(TerminalIdString(d.id))
       ELSE UNCHANGED vars
    /\ UNCHANGED <<hostVars, inFlight, consent, viewVars, csv, terminals, watchVars,
                   starting>>

\* filesystemWatcher.ts:146-157 with recording.ts:1081-1107: the read of a
\* notification's processing has ended, and what it reports is handed to
\* handleFileChange, which logs the diff of the two texts
taskResumedDelivered(task) ==
    /\ task \in watcher.tasks /\ task.kind = "change" /\ task.at = "resume"
    /\ LET w1 == FinishProcessFileChange([watcher EXCEPT !.tasks = @ \ {task}],
                                         task, task.newContent)
       IN  /\ watcher' = w1
           /\ IF Len(w1.reports) > Len(watcher.reports)
              THEN handleFileChange(task.filePath, task.changeType,
                                    computeDiff(task.oldContent, task.newContent),
                                    task.oldContent, task.newContent, Shown0)
              ELSE UNCHANGED vars
    /\ UNCHANGED <<hostVars, inFlight, consent, viewVars, csv, termVars, disk,
                   starting>>

\* commands and file notifications of live sessions, whose results arrive while
\* sessions are stopped and started
NextStale ==
    \/ openTerminal("T1", "bash")
    \/ /\ recording.isRecording /\ CallRoom(MaxCallsStale)
       /\ onDidStartTerminalShellExecution("T1")
    \/ \E d \in tracker.drains :
           /\ CallRoom(MaxCallsStale) /\ Room(MaxEventsStale)
           /\ drainChunkDelivered(d, ChunkPartial)
    \/ \E d \in tracker.drains : drainEnd(d)
    \/ \E filePath \in Paths, text \in FileTexts :
           /\ recording.isRecording /\ watcher.notified < MaxNotificationsStale
           /\ handleFileEvent(filePath, text)
    \/ \E task \in watcher.tasks, found \in BOOLEAN : taskTracked(task, found)
    \/ \E task \in watcher.tasks : taskSized(task)
    \/ \E task \in watcher.tasks : readDone(task)
    \/ \E task \in watcher.tasks :
           Room(MaxEventsStale) /\ taskResumedDelivered(task)
    \/ startSession(TRUE, Shown0)
    \/ stopSession

SpecStale == Init /\ [][NextStale]_allVars

\* C36: a chunk read from the stream of a command, or the text read for a file
\* notification, that began in a session stopped since appends nothing to the
\* log, neither while no session is live nor in a session started afterwards.
C36_StoppedSessionResultsDiscarded ==
    /\ [][\A d \in tracker.drains :
              (d.stopped /\ drainChunkDelivered(d, ChunkPartial))
                  => recording'.events = recording.events]_allVars
    /\ [][\A task \in watcher.tasks :
              (task.stopped /\ taskResumedDelivered(task))
                  => recording'.events = recording.events]_allVars

\* C25: while a path's delete has been processed and no create or change
\* notification for it has arrived since, the cache has no entry for the path;
\* the delete itself removes the entry and reports (path, delete, old, null) with
\* old the text cached just before.
C25_DeleteForgetsPath ==
    /\ [](\A filePath \in watcher.deleted : filePath \notin DOMAIN watcher.fileCache)
    /\ [][\A filePath \in Paths :
              (~isExcluded(watcher, filePath) /\ handleFileEvent(filePath, NullContent)) =>
                  /\ filePath \notin DOMAIN watcher'.fileCache
                  /\ watcher'.reports
                         = Append(watcher.reports,
                                  Report(filePath, "delete",
                                         CacheGet(watcher, filePath), NullContent))]_allVars

\* C26: when the read of a create/change notification ends with a text, the
\* notification is dropped (no report, cache unchanged) if the text equals the
\* cached one and the notification is no create; otherwise the cache entry
\* becomes the text and one report (path, kind, old, new) is made with old the
\* entry the cache held before (null if none); when the file is unreadable there
\* is no report and the cache is unchanged.
C26_ChangeReportedAgainstCache ==
    [][\A task \in watcher.tasks :
          taskResumed(task) =>
              LET cached == CacheGet(watcher, task.filePath)
                  read == task.newContent
              IN  IF read = NullContent
                     \/ (read = cached /\ task.changeType # "create")
                  THEN /\ watcher'.reports = watcher.reports
                       /\ watcher'.fileCache = watcher.fileCache
                  ELSE /\ watcher'.fileCache = MapSet(watcher.fileCache,
                                                      task.filePath, read)
                       /\ watcher'.reports
                              = Append(watcher.reports,
                                       Report(task.filePath, task.changeType,
                                              cached, read))]_allVars

\* the reports i < j are consecutive reports for the same path
ConsecutiveReports(i, j) ==
    /\ i < j
    /\ watcher.reports[i].filePath = watcher.reports[j].filePath
    /\ \A k \in (i + 1)..(j - 1) :
           watcher.reports[k].filePath # watcher.reports[j].filePath

\* C38: for every path the old content of a report is the new content of the
\* previous report for that path, or null when the path was not cached (as after
\* a delete); and when a report is made the cache entry of its path is the
\* report's new content (none for a delete).
C38_ReportsFormChain ==
    /\ [](\A i, j \in 1..Len(watcher.reports) :
              ConsecutiveReports(i, j) =>
                  \/ watcher.reports[j].oldContent = watcher.reports[i].newContent
                  \/ watcher.reports[j].oldContent = NullContent)
    /\ [][Len(watcher'.reports) > Len(watcher.reports) =>
              LET report == watcher'.reports[Len(watcher'.reports)]
              IN  CacheGet(watcher', report.filePath) = report.newContent]_allVars

\* C40: a turn of the warm-up leaves a cache entry alone that holds the file's
\* present text; a turn begun before the session was stopped adds nothing to the
\* cache of a later session; and once the warm-up and every processing have
\* ended, each cached path holds the text of the latest read of that path in the
\* session.
C40_WarmupKeepsNewerContent ==
    /\ [][\A task \in watcher.tasks :
              (/\ scanResumed(task)
               /\ task.filePath \in DOMAIN watcher.fileCache
               /\ watcher.fileCache[task.filePath] = disk[task.filePath])
              => watcher'.fileCache = watcher.fileCache]_allVars
    /\ [][\A task \in watcher.tasks :
              (task.stopped /\ scanResumed(task))
                  => watcher'.fileCache = watcher.fileCache]_allVars
    /\ []((recording.isRecording /\ watcher.tasks = {}) =>
              \A filePath \in DOMAIN watcher.fileCache :
                  /\ filePath \in DOMAIN watcher.lastRead
                  /\ watcher.fileCache[filePath] = watcher.lastRead[filePath])

\* C33: a create, change or delete notification for a path under .git or
\* matched by the gitignore rules changes neither the cache nor the reports and
\* starts no processing; no cache entry, report or processing ever exists for
\* such a path, the warm-up included.
C33_ExcludedPathDropped ==
    /\ [](/\ \A filePath \in DOMAIN watcher.fileCache : filePath \notin ExcludedPaths
          /\ \A i \in 1..Len(watcher.reports) :
                 watcher.reports[i].filePath \notin ExcludedPaths
          /\ \A task \in watcher.tasks : task.filePath \notin ExcludedPaths)
    /\ [][\A filePath \in ExcludedPaths, text \in ExcludedTexts \cup {NullContent} :
              handleFileEvent(filePath, text) =>
                  /\ watcher'.fileCache = watcher.fileCache
                  /\ watcher'.reports = watcher.reports
                  /\ watcher'.tasks = watcher.tasks]_allVars

\* C33 witness: the only notification so far was for a path under .git, whose
\* file now exists, and there is no report, no cache entry and no processing (a
\* notification for a.txt, absent now, would have been a delete and reported).
C33_Witness ==
    /\ watcher.fileWatcher
    /\ watcher.notified = 1
    /\ disk["a.txt"] = NullContent
    /\ disk[ExcludedPath] # NullContent
    /\ disk[IgnoredPath] = NullContent
    /\ watcher.reports = << >>
    /\ watcher.fileCache = EmptyMap
    /\ watcher.tasks = {}

\* C32: a file larger than the ceiling is never tracked: the cache never holds
\* the text of such a file, no create/change report carries it, and once every
\* processing and the warm-up have ended the cache has no entry for a path whose
\* file is larger than the ceiling.
C32_OversizeNeverTracked ==
    /\ \A filePath \in DOMAIN watcher.fileCache :
           isFileSizeWithinLimit(watcher.fileCache[filePath])
    /\ \A i \in 1..Len(watcher.reports) :
           watcher.reports[i].changeType # "delete"
               => isFileSizeWithinLimit(watcher.reports[i].newContent)
    /\ \A filePath \in Paths :
           (watcher.tasks = {} /\ disk[filePath] = BigText)
               => filePath \notin DOMAIN watcher.fileCache

\* ------------------------------------------------ git signals and the clock
GitReports == {in \in ReportInputs :
                  in.oldContent = <<"a", "b">> /\ in.newContent = <<"X", "a", "b">>}

NextGit ==
    \/ \E file \in Files, in \in GitReports :
           /\ Room(MaxEventsGit) /\ processFileChange(file, in, Shown0)
           /\ UNCHANGED <<hostVars, inFlight, outerVars>>
    \/ gitHeadWatcherOnDidChange /\ UNCHANGED <<hostVars, inFlight, outerVars>>
    \/ gitRefsWatcherOnDidChange /\ UNCHANGED <<hostVars, inFlight, outerVars>>
    \/ \E d \in StepsGit :
           Tick(d, MaxTimeGit) /\ UNCHANGED <<hostVars, inFlight, outerVars>>

SpecGit == InitFiles /\ [][NextGit]_allVars

\* C27: a file change that asks for the recent git operation gets one exactly
\* when the last HEAD or ref signal is at most 500 ms old; it is git_checkout
\* when sawHeadChange is set and git when it is not, and getting one clears
\* sawHeadChange; with an older signal it gets none and the flag stays.
C27_RecentOperationWithinWindow ==
    [][\A file \in Files, in \in GitReports :
          (processFileChange(file, in, Shown0)
           /\ Len(recording'.events) > Len(Events))
          => LET age == now - lastGitOperationTime
                 logged == recording'.events[Len(recording'.events)]
             IN  /\ logged.action.kind = "file_change"
                 /\ age > GIT_OPERATION_WINDOW_MS =>
                        /\ logged.action.source = "external"
                        /\ sawHeadChange' = sawHeadChange
                 /\ age <= GIT_OPERATION_WINDOW_MS =>
                        /\ logged.action.source
                               = IF sawHeadChange THEN "git_checkout" ELSE "git"
                        /\ sawHeadChange' = FALSE]_allVars

\* C27 witness: a file change arrived exactly 500 ms after a change of HEAD, was
\* logged as git_checkout, and the flag is cleared.
C27_Witness ==
    /\ FileChangeHandled
    /\ now - lastGitOperationTime = GIT_OPERATION_WINDOW_MS
    /\ lastHeadChangeTime = lastGitOperationTime
    /\ FileChangeLogged
    /\ LastEvent.action.source = "git_checkout"
    /\ ~sawHeadChange

\* C39: a file change is classified git_checkout only if .git/HEAD changed at
\* most 500 ms before the call of getRecentGitOperation that classified it.
C39_CheckoutNeedsRecentHeadChange ==
    (/\ FileChangeHandled
     /\ FileChangeLogged
     /\ LastEvent.action.source = "git_checkout")
    => lastOp.headRecent

\* C28: a document change of the user logs its Edit actions and no observation;
\* the selection change that follows it logs the observation of the settled
\* state first.
C28_EditObservationDeferred ==
    /\ [][(lastOp'.op = "handleTextDocumentChange"
           /\ lastOp'.before = Len(Events)
           /\ Len(recording'.events) > Len(Events))
          => \A i \in (Len(Events) + 1)..Len(recording'.events) :
                 /\ recording'.events[i].type = "action"
                 /\ recording'.events[i].action.kind = "edit"]_allVars
    /\ [][(lastOp.op = "handleTextDocumentChange"
           /\ lastOp'.op = "handleSelectionChange"
           /\ Len(recording'.events) > Len(Events))
          => recording'.events[Len(Events) + 1].type = "observation"]_allVars

====
